---- MODULE Spec2Model ----
(***************************************************************************)
(* A model of the toy-cashu wallet (src/src/wallet.rs) and of the part of  *)
(* its mint client (src/src/mint.rs) the wallet operations use.            *)
(*                                                                         *)
(* The wallet is single threaded.  Every request to the mint is a step of  *)
(* the model: an action sends a request (the program counter pc names the  *)
(* request in flight) and the next action receives the mint's answer,      *)
(* chosen by the model, and runs the code up to the next request or to     *)
(* the operation's return.  The memoized fetches (get_keysets, get_keys)   *)
(* happen inside those runs; whether a fetch that is needed succeeds is    *)
(* chosen with the action.                                                 *)
(*                                                                         *)
(* Scaling.  split_amount covers the 32 denominations 2^0 .. 2^31 of a     *)
(* 64 bit amount.  The model keeps that shape with NumDenoms               *)
(* denominations and amounts of 2 * NumDenoms bits.                        *)
(***************************************************************************)
EXTENDS Integers, Sequences, FiniteSets, TLC

(* ------------------------------ bounds -------------------------------- *)

\* number of denominations of split_amount (32 in wallet.rs:657), scaled
NumDenoms == 3
\* most proofs in the wallet file opened at the start
MaxStore == 2
\* most proofs in a received token
MaxToken == 2
\* largest amount asked of mint_tokens and prepare_cashu_token
MaxAmount == 9
\* largest amount and fee_reserve of a melt quote
MaxMeltAmount == 5
MaxFeeReserve == 2
\* longest list of signatures of a mint answer that is not the honest one
MaxDishonest == 2
MaxQuotes == 2
MaxSlice == 4
MaxElem == 4
MaxTarget == 9
MaxBlankFee == 1024
MaxExtract == 3
HashAttempts == 4
\* the largest fee_reserve whose change is split
MaxChangeFee == 40

(* --------------------------- sequences --------------------------------- *)

RECURSIVE Sum(_)
Sum(s) == IF s = <<>> THEN 0 ELSE Head(s) + Sum(Tail(s))

RECURSIVE Pow2(_)
Pow2(n) == IF n = 0 THEN 1 ELSE 2 * Pow2(n - 1)

\* u64 in the model: 2 * NumDenoms bits
Modulus == Pow2(2 * NumDenoms)

Amounts(ps) == [i \in DOMAIN ps |-> ps[i].amount]

Range(s) == {s[i] : i \in DOMAIN s}

\* Vec::swap_remove: the last element takes the place of the removed one
SwapRemove(s, i) ==
  IF i = Len(s) THEN SubSeq(s, 1, Len(s) - 1)
  ELSE [k \in 1..(Len(s) - 1) |-> IF k = i THEN s[Len(s)] ELSE s[k]]

\* Iterator::position: index of the first element equal to x, 0 if none
Position(s, x) ==
  IF \E i \in DOMAIN s : s[i] = x
  THEN CHOOSE i \in DOMAIN s : s[i] = x /\ \A k \in 1..(i - 1) : s[k] # x
  ELSE 0

RECURSIVE Insert(_, _)
Insert(x, s) ==
  IF s = <<>> THEN <<x>>
  ELSE IF x < Head(s) THEN <<x>> \o s
  ELSE <<Head(s)>> \o Insert(x, Tail(s))

\* slice::sort (stable, ascending) on amounts
RECURSIVE SortAsc(_)
SortAsc(s) == IF s = <<>> THEN <<>> ELSE Insert(s[Len(s)], SortAsc(SubSeq(s, 1, Len(s) - 1)))

\* u64::div_ceil
DivCeil(a, b) == (a + b - 1) \div b

(* ------------------------- helpers.rs ---------------------------------- *)

\* the inner loop run with j going up from num to target: dp[j - num] may then
\* have been set for this very num
RECURSIVE SubsetSumForward(_, _, _, _)
SubsetSumForward(st, num, target, j) ==
  IF j > target THEN st
  ELSE IF st.dp[j - num] /\ ~st.dp[j]
       THEN SubsetSumForward([dp |-> [st.dp EXCEPT ![j] = TRUE],
                              path |-> [st.path EXCEPT ![j] = Append(st.path[j - num], num)]],
                             num, target, j + 1)
       ELSE SubsetSumForward(st, num, target, j + 1)

SubsetSumInner_Forward(st, num, target) == SubsetSumForward(st, num, target, num)

\* the inner loop of find_subset_sum for one num.  The loop runs j from target
\* down to num and writes dp[j], path[j] reading dp[j - num], path[j - num];
\* as j - num < j those are still the values from before the loop, so the
\* loop is this update of all j at once.
SubsetSumInner(st, num, target) ==
  LET hit(j) == j >= num /\ st.dp[j - num] /\ ~st.dp[j]
  IN [dp |-> [j \in 0..target |-> st.dp[j] \/ hit(j)],
      path |-> [j \in 0..target |->
                  IF hit(j) THEN Append(st.path[j - num], num) ELSE st.path[j]]]

RECURSIVE SubsetSumOuter(_, _, _)
SubsetSumOuter(st, slice, target) ==
  IF slice = <<>> THEN st
  ELSE SubsetSumOuter(SubsetSumInner(st, Head(slice), target), Tail(slice), target)

\* find_subset_sum: [found, subset]
find_subset_sum(slice, target) ==
  IF slice = <<>> \/ target = 0 THEN [found |-> FALSE, subset |-> <<>>]
  ELSE LET st0 == [dp |-> [j \in 0..target |-> j = 0],
                   path |-> [j \in 0..target |-> <<>>]]
           st == SubsetSumOuter(st0, slice, target)
       IN IF st.dp[target] THEN [found |-> TRUE, subset |-> st.path[target]]
          ELSE [found |-> FALSE, subset |-> <<>>]

(* ------------------------- wallet.rs: pure ----------------------------- *)

\* the fold of split_amount over 2^(NumDenoms-1) .. 2^0
RECURSIVE SplitFold(_, _, _)
SplitFold(acc, total, k) ==
  IF k < 0 THEN acc
  ELSE LET amount == Pow2(k)
       IN SplitFold(IF total >= amount THEN Append(acc, amount) ELSE acc,
                    total % amount, k - 1)

split_amount(amount) == SplitFold(<<>>, amount, NumDenoms - 1)

\* u32::ilog2 for x > 0
RECURSIVE ILog2(_)
ILog2(x) == IF x <= 1 THEN 0 ELSE 1 + ILog2(x \div 2)

Max(a, b) == IF a >= b THEN a ELSE b

\* one blank output for every fee_reserve above 0
calculate_number_of_blank_outputs_One(fee_reserve) ==
  IF fee_reserve = 0 THEN 0 ELSE 1

\* the count without the + 1 after ilog2
calculate_number_of_blank_outputs_NoPlusOne(fee_reserve) ==
  IF fee_reserve = 0 THEN 0 ELSE Max(1, ILog2(fee_reserve))

calculate_number_of_blank_outputs(fee_reserve) ==
  IF fee_reserve = 0 THEN 0 ELSE Max(1, ILog2(fee_reserve) + 1)

\* the retain closure of extract_proofs_with_amounts, proof by proof
RECURSIVE ExtractRetain(_, _, _, _)
ExtractRetain(ps, amounts, kept, extracted) ==
  IF ps = <<>> THEN [kept |-> kept, extracted |-> extracted]
  ELSE LET p == Head(ps)
           index == Position(amounts, p.amount)
       IN IF index # 0
          THEN ExtractRetain(Tail(ps), SwapRemove(amounts, index), kept, Append(extracted, p))
          ELSE ExtractRetain(Tail(ps), amounts, Append(kept, p), extracted)

\* extract_proofs_with_amounts without the rollback of a failed extraction
extract_proofs_with_amounts_NoRollback(ps, amounts) ==
  LET r == ExtractRetain(ps, amounts, <<>>, <<>>)
  IN IF Len(r.extracted) # Len(amounts)
     THEN [ok |-> FALSE, proofs |-> r.kept, extracted |-> <<>>]
     ELSE [ok |-> TRUE, proofs |-> r.kept, extracted |-> r.extracted]

\* extract_proofs_with_amounts on a store: [ok, proofs, extracted]
extract_proofs_with_amounts(ps, amounts) ==
  LET r == ExtractRetain(ps, amounts, <<>>, <<>>)
  IN IF Len(r.extracted) # Len(amounts)
     THEN [ok |-> FALSE, proofs |-> r.kept \o r.extracted, extracted |-> <<>>]
     ELSE [ok |-> TRUE, proofs |-> r.kept, extracted |-> r.extracted]

(* ----------------------------- the mint -------------------------------- *)

\* the amounts split_amount can produce
Denominations == {Pow2(i) : i \in 0..(NumDenoms - 1)}

\* input_fee_ppk values of a keyset
FeePpk == {0, 500, 2000}

\* types.rs KeysetInfo
KeysetInfo(id, active, ppk) ==
  [id |-> id, unit |-> "sat", active |-> active, input_fee_ppk |-> ppk]

\* types.rs Keyset: the amounts the keyset has a key for
Keyset(id, amounts) == [id |-> id, unit |-> "sat", keys |-> amounts]

\* the fees of the active and of the older keyset: the older one is the dear
\* one, or it is free and the active one is dear
KeysetFees == (FeePpk \X {2000}) \cup {<<2000, 0>>}

\* What the mint answers to GET /v1/keysets and GET /v1/keys.  Keyset "A" is
\* the active one, "B" an older one that proofs of the wallet may still carry.
NormalMints ==
  {[keysets |-> <<KeysetInfo("A", TRUE, f[1]), KeysetInfo("B", FALSE, f[2])>>,
    keys |-> <<Keyset("A", Denominations)>>] : f \in KeysetFees}

\* Mints whose answers lack something the wallet looks up: keyset B unknown,
\* no active keyset, no keys for the active keyset, no key for amount 1.
OddMints ==
  {[keysets |-> <<KeysetInfo("A", TRUE, 0)>>, keys |-> <<Keyset("A", Denominations)>>],
   [keysets |-> <<KeysetInfo("A", FALSE, 0), KeysetInfo("B", FALSE, 0)>>,
    keys |-> <<Keyset("A", Denominations)>>],
   [keysets |-> <<KeysetInfo("A", TRUE, 0), KeysetInfo("B", FALSE, 0)>>, keys |-> <<>>],
   [keysets |-> <<KeysetInfo("A", TRUE, 500), KeysetInfo("B", FALSE, 0)>>,
    keys |-> <<Keyset("A", Denominations \ {1})>>]}

Mints == NormalMints \cup OddMints

\* types.rs for_unit / by_id (Iterator::find): Option as a list of at most
\* one element, the first keyset with the unit / the id
RECURSIVE for_unit(_, _)
for_unit(ks, unit) ==
  IF ks = <<>> THEN <<>>
  ELSE IF Head(ks).unit = unit THEN <<Head(ks)>>
  ELSE for_unit(Tail(ks), unit)

RECURSIVE by_id(_, _)
by_id(ks, id) ==
  IF ks = <<>> THEN <<>>
  ELSE IF Head(ks).id = id THEN <<Head(ks)>>
  ELSE by_id(Tail(ks), id)

RECURSIVE FilterActive(_)
FilterActive(s) ==
  IF s = <<>> THEN <<>>
  ELSE (IF Head(s).active THEN <<Head(s)>> ELSE <<>>) \o FilterActive(Tail(s))

(* --------------------------- variables --------------------------------- *)

VARIABLES
  mint,      \* what the mint serves: [keysets, keys]
  proofs,    \* Wallet.proofs, the store
  saved,     \* the proofs of the wallet file as last written by save()
  keysets,   \* Mint.keysets is Some
  keys,      \* Mint.keys is Some
  next,      \* the next fresh secret of Secret::generate
  pc,        \* idle, the request in flight, or done
  call,      \* the running operation and its argument
  loc,       \* the locals of the running operation that outlive a request
  pre,       \* the store when the operation was called
  trace,     \* what the operation did so far: requests, failures, saves, restores
  answers,   \* the mint's answers to the operation's requests, in order
  result,    \* what the operation returned
  mint_quotes, \* Wallet.mint_quotes: the ids of the mint quotes created
  minted,    \* the quote ids of the mint requests sent, in order
  cache      \* Mint.info, Mint.keys, Mint.keysets: None (<<>>) or Some(v) (<<v>>)

vars == <<mint, proofs, saved, keysets, keys, next, pc, call, loc, pre, trace, answers, result,
          mint_quotes, minted, cache>>

(* ------------------------- the wallet in a run ------------------------- *)

(* The code between two requests runs on a record w of the wallet's state,  *)
(* [proofs, saved, keysets, keys, next, trace], and on the choices o made   *)
(* for the run: ksOk / keysOk, whether a fetch of keysets / keys succeeds   *)
(* if the run makes one, and wrap, whether the build wraps on overflow      *)
(* (release) or panics (debug).                                             *)

Log(w, e) == [w EXCEPT !.trace = Append(@, e)]

\* Wallet::save; writing the file is taken to succeed
save(w) == Log([w EXCEPT !.saved = w.proofs], "save")

\* self.proofs.append(&mut staged) on an error path
Restore(w, staged) == Log([w EXCEPT !.proofs = @ \o staged], "restore")

\* get_keysets that asks the mint once more after a failed request
get_keysets_Retry(w, o) ==
  IF w.keysets THEN [ok |-> TRUE, w |-> w]
  ELSE IF o.ksOk THEN [ok |-> TRUE, w |-> Log([w EXCEPT !.keysets = TRUE], "keysets")]
  ELSE [ok |-> TRUE,
        w |-> Log(Log(Log([w EXCEPT !.keysets = TRUE], "keysets"), "fail"), "keysets")]

\* Mint::get_keysets: [ok, w]
get_keysets(w, o) ==
  IF w.keysets THEN [ok |-> TRUE, w |-> w]
  ELSE IF o.ksOk THEN [ok |-> TRUE, w |-> Log([w EXCEPT !.keysets = TRUE], "keysets")]
  ELSE [ok |-> FALSE, w |-> Log(Log(w, "keysets"), "fail")]

\* Mint::get_keys: [ok, w]
get_keys(w, o) ==
  IF w.keys THEN [ok |-> TRUE, w |-> w]
  ELSE IF o.keysOk THEN [ok |-> TRUE, w |-> Log([w EXCEPT !.keys = TRUE], "keys")]
  ELSE [ok |-> FALSE, w |-> Log(Log(w, "keys"), "fail")]

\* Wallet::mint_keysets(only_active) after a successful get_keysets
mint_keysets(only_active) ==
  IF only_active THEN FilterActive(mint.keysets) ELSE mint.keysets

\* the fee of a list of input proofs, ceil(sum of input_fee_ppk / 1000)
FeePpkOf(id) == LET k == by_id(mint_keysets(FALSE), id)
                IN IF k = <<>> THEN 0 ELSE k[1].input_fee_ppk

RECURSIVE SumFeePpk(_)
SumFeePpk(ps) == IF ps = <<>> THEN 0 ELSE FeePpkOf(Head(ps).keyset_id) + SumFeePpk(Tail(ps))

\* whether every proof's keyset is one the mint lists
AllKnown(ps) == \A i \in DOMAIN ps : by_id(mint_keysets(FALSE), ps[i].keyset_id) # <<>>

(* ---------------- prepare_amounts_for_swap_before_spend ----------------- *)

\* what prepare_amounts_for_swap_before_spend returns: st is "ok", "err"
\* (an Err) or "panic" (a failed assertion)
PrepResult(st, w, input_proofs, output_amounts, amounts_to_spend) ==
  [st |-> st, w |-> w, input_proofs |-> input_proofs,
   output_amounts |-> output_amounts, amounts_to_spend |-> amounts_to_spend]

PrepFail(st, w) == PrepResult(st, w, <<>>, <<>>, <<>>)

\* the loop over the sorted amounts (wallet.rs:695-711) up to the amount that
\* reaches the total: [found, acc, spend, last]
RECURSIVE PrepLoop(_, _, _, _)
PrepLoop(avail, acc, spend, total) ==
  IF avail = <<>> THEN [found |-> FALSE, acc |-> acc, spend |-> spend, last |-> 0]
  ELSE IF acc + Head(avail) < total
       THEN PrepLoop(Tail(avail), acc + Head(avail), Append(spend, Head(avail)), total)
       ELSE [found |-> TRUE, acc |-> acc, spend |-> spend, last |-> Head(avail)]

\* wallet.rs:730-758, once the keyset of the proof to swap is known
PrepPlan(w, l, last_proof, total, ppk) ==
  LET last_amount == l.last
      missing_amount == total - l.acc
      num_inputs == 1
      total_fee == DivCeil(num_inputs * ppk, 1000)
      missing_change == split_amount(missing_amount)
      needed_change_amounts ==
        split_amount(last_amount - missing_amount - total_fee) \o missing_change
      amounts_to_spend == l.spend \o missing_change
  IN IF last_amount - missing_amount < total_fee
     THEN PrepFail("err", w)                         \* bail!: last_proof is dropped
     ELSE IF last_amount # Sum(needed_change_amounts) + total_fee
     THEN PrepFail("panic", w)                       \* assert_eq!
     ELSE IF Sum(amounts_to_spend) # total
     THEN PrepFail("panic", w)                       \* assert_eq!
     ELSE PrepResult("ok", w, <<last_proof>>, needed_change_amounts, amounts_to_spend)

\* wallet.rs:713-728, the proof to swap taken from the store
PrepKeyset(w, o, l, total) ==
  LET e == extract_proofs_with_amounts(w.proofs, <<l.last>>)
      w1 == [w EXCEPT !.proofs = e.proofs]
      last_proof == e.extracted[1]
      g == get_keysets(w1, o)
      k == by_id(mint_keysets(FALSE), last_proof.keyset_id)
  IN IF ~e.ok THEN PrepFail("err", w1)
     ELSE IF ~g.ok THEN PrepFail("err", Restore(g.w, <<last_proof>>))
     ELSE IF k = <<>> THEN PrepFail("err", Restore(g.w, <<last_proof>>))
     ELSE PrepPlan(g.w, l, last_proof, total, k[1].input_fee_ppk)

prepare_amounts_for_swap_before_spend(w0, o, total_amount_to_spend) ==
  LET w == Log(w0, "prep")
      available_amounts == SortAsc(Amounts(w.proofs))
      have_total == Sum(available_amounts)
      sub == find_subset_sum(available_amounts, total_amount_to_spend)
      l == PrepLoop(available_amounts, 0, <<>>, total_amount_to_spend)
  IN IF have_total < total_amount_to_spend THEN PrepFail("panic", w)   \* assert!
     ELSE IF sub.found THEN PrepResult("ok", w, <<>>, <<>>, sub.subset)
     ELSE IF ~l.found THEN PrepFail("err", w)        \* failed to find proof
     ELSE PrepKeyset(w, o, l, total_amount_to_spend)

(* ------------------------------ swap_proofs ----------------------------- *)

\* BlindSignature::construct_proof: the proof carries the amount and the
\* keyset id of the signature and the secret it is unblinded with
construct_proof(amount, keyset_id, secret) ==
  [secret |-> secret, amount |-> amount, keyset_id |-> keyset_id]

\* a - b on u64: [st, v]; an underflow panics or wraps, as the build decides
SubU64(a, b, o) ==
  IF a >= b THEN [st |-> "ok", v |-> a - b]
  ELSE IF o.wrap THEN [st |-> "ok", v |-> a - b + Modulus]
  ELSE [st |-> "panic", v |-> 0]

SwapFail(st, w) == [st |-> st, w |-> w, req |-> <<>>]

\* wallet.rs:574-601: the active keyset, its keys, the blinded outputs, and
\* the request sent
SwapOutputs(w, o, old_proofs, proof_unit, fee, output_amounts) ==
  LET g == get_keysets(w, o)
      a == for_unit(mint_keysets(TRUE), proof_unit)
      gk == get_keys(g.w, o)
      ak == by_id(mint.keys, a[1].id)
      n == Len(output_amounts)
      w2 == Log([gk.w EXCEPT !.next = @ + n], "swap")
  IN IF ~g.ok THEN SwapFail("err", g.w)
     ELSE IF a = <<>> THEN SwapFail("err", g.w)      \* No active keyset
     ELSE IF ~gk.ok THEN SwapFail("err", gk.w)
     ELSE IF ak = <<>> THEN SwapFail("err", gk.w)    \* Mint did not provided active keys
     ELSE [st |-> "sent", w |-> w2,
           req |-> [inputs |-> old_proofs, outputs |-> output_amounts,
                    secrets |-> [i \in 1..n |-> gk.w.next + i - 1],
                    fee |-> fee, keyset_id |-> a[1].id, active_keys |-> ak[1].keys]]

\* SwapOutputAmounts without the sort of the split amounts
SwapOutputAmounts_Unsorted(given, output_amounts, amount_minus_fee) ==
  IF given THEN output_amounts ELSE split_amount(amount_minus_fee)

\* the output amounts of swap_proofs (wallet.rs:559-572): those the caller
\* gave, or the split of the inputs less the fee in ascending order
SwapOutputAmounts(given, output_amounts, amount_minus_fee) ==
  IF given THEN output_amounts ELSE SortAsc(split_amount(amount_minus_fee))

\* swap_proofs up to the request (wallet.rs:531-601).  given says whether the
\* caller passed output_amounts.
SwapSend(w, o, old_proofs, given, output_amounts) ==
  LET g == IF old_proofs = <<>> THEN [ok |-> TRUE, w |-> w] ELSE get_keysets(w, o)
      sum_fee_ppk == SumFeePpk(old_proofs)
      proof_unit == IF old_proofs = <<>> THEN ""
                    ELSE by_id(mint_keysets(FALSE), old_proofs[1].keyset_id)[1].unit
      fee == DivCeil(sum_fee_ppk, 1000)
      amount_minus_fee == SubU64(Sum(Amounts(old_proofs)), fee, o)
      outs == SwapOutputAmounts(given, output_amounts, amount_minus_fee.v)
  IN IF ~g.ok THEN SwapFail("err", g.w)
     ELSE IF ~AllKnown(old_proofs) THEN SwapFail("err", g.w)     \* Missing keyset
     ELSE IF amount_minus_fee.st = "panic" THEN SwapFail("panic", g.w)
     ELSE SwapOutputs(g.w, o, old_proofs, proof_unit, fee, outs)

\* the loop over the promises (wallet.rs:606-626): each takes the key of its
\* amount and the next secret of the queue
RECURSIVE Unblind(_, _, _, _, _)
Unblind(promises, secrets, active_keys, keyset_id, new_proofs) ==
  IF promises = <<>> THEN [ok |-> TRUE, new_proofs |-> new_proofs]
  ELSE IF Head(promises) \notin active_keys THEN [ok |-> FALSE, new_proofs |-> <<>>]
  ELSE IF secrets = <<>> THEN [ok |-> FALSE, new_proofs |-> <<>>]
  ELSE Unblind(Tail(promises), Tail(secrets), active_keys, keyset_id,
               Append(new_proofs, construct_proof(Head(promises), keyset_id, Head(secrets))))

\* swap_proofs from the mint's answer on (wallet.rs:601-628): [st, w, new_proofs, fee]
SwapReceive(w, req, resp) ==
  LET u == Unblind(resp.sigs, req.secrets, req.active_keys, req.keyset_id, <<>>)
  IN IF ~resp.ok THEN [st |-> "err", w |-> Log(w, "fail"), new_proofs |-> <<>>, fee |-> 0]
     ELSE IF ~u.ok THEN [st |-> "err", w |-> w, new_proofs |-> <<>>, fee |-> 0]
     ELSE [st |-> "ok", w |-> w, new_proofs |-> u.new_proofs, fee |-> req.fee]

(* ------------------------------ the state ------------------------------ *)

KeysetIds == {"A", "B"}

\* the lists of at most n proofs with amounts of the denominations, of both
\* keysets, the i-th with secret base + i
ProofLists(n, base) ==
  UNION {{[i \in 1..k |-> [secret |-> base + i, amount |-> f[i][1], keyset_id |-> f[i][2]]] :
            f \in [1..k -> Denominations \X KeysetIds]} : k \in 0..n}

\* Wallet::mint_url, and the url of another mint
OwnUrl == "https://mint/"
OtherUrl == "https://other/"

\* the tokens a user may paste: TokenV4 as [mint_url, proofs]
Tokens == {[mint_url |-> u, proofs |-> ps] :
             u \in {OwnUrl, OtherUrl}, ps \in ProofLists(MaxToken, MaxStore)}

\* what the mint may answer to a mint or swap request for req: no answer or a
\* non-2xx one (ok = FALSE), one signature per output as requested, or any
\* short list of signatures
Responses(req) ==
  {[ok |-> FALSE, sigs |-> <<>>], [ok |-> TRUE, sigs |-> req]} \cup
  {[ok |-> TRUE, sigs |-> sg] :
     sg \in UNION {[1..k -> Denominations] : k \in 0..MaxDishonest}}

\* the choices for a run (see above)
Choices ==
  [ksOk : IF keysets THEN {TRUE} ELSE BOOLEAN,
   keysOk : IF keys THEN {TRUE} ELSE BOOLEAN,
   wrap : BOOLEAN]

\* the wallet as the running code sees it
Wallet == [proofs |-> proofs, saved |-> saved, keysets |-> keysets, keys |-> keys,
           next |-> next, trace |-> trace]

Commit(w) ==
  /\ proofs' = w.proofs
  /\ saved' = w.saved
  /\ keysets' = w.keysets
  /\ keys' = w.keys
  /\ next' = w.next
  /\ trace' = w.trace
  /\ cache' = [cache EXCEPT !.keysets = IF w.keysets THEN <<mint.keysets>> ELSE <<>>,
                            !.keys = IF w.keys THEN <<mint.keys>> ELSE <<>>]

\* the operation returns: st is "ok", "err" or "panic", val the value of an Ok
Return(w, st, val) ==
  /\ Commit(w)
  /\ pc' = "done"
  /\ result' = [st |-> st, val |-> val]

NoVal == [none |-> TRUE]

\* Mint::new: nothing fetched yet (mint.rs:55-64)
NoCache == [info |-> <<>>, keys |-> <<>>, keysets |-> <<>>]

\* Wallet::open: the proofs of the wallet file, nothing fetched from the mint
Init ==
  /\ mint \in Mints
  /\ proofs \in ProofLists(MaxStore, 0)
  /\ saved = proofs
  /\ keysets = FALSE
  /\ keys = FALSE
  /\ next = MaxStore + MaxToken + 1
  /\ pc = "idle"
  /\ call = [op |-> "none"]
  /\ loc = [caller |-> "none"]
  /\ pre = proofs
  /\ trace = <<>>
  /\ answers = <<>>
  /\ result = [st |-> "none", val |-> NoVal]
  /\ mint_quotes = <<>>
  /\ minted = <<>>
  /\ cache = NoCache

\* an operation is called: the store at the call is remembered
Call(c) ==
  /\ pc = "idle"
  /\ call' = c
  /\ pre' = proofs
  /\ UNCHANGED <<mint, answers, mint_quotes, minted>>

(* ------------------------------- send ---------------------------------- *)

\* TokenV4::new: the token of the proofs; encoding is taken to succeed
TokenV4_new(mint_url, ps) == [mint_url |-> mint_url, proofs |-> ps]

\* TokenV4::amount
token_amount(token) == Sum(Amounts(token.proofs))

\* the end of prepare_inputs_for_spend and of prepare_cashu_token
\* (wallet.rs:780-784, 499-506)
SendFinish(w, amounts_to_spend, swap_fee) ==
  LET e == extract_proofs_with_amounts(w.proofs, amounts_to_spend)
      w1 == [w EXCEPT !.proofs = e.proofs]
  IN IF ~e.ok THEN Return(w1, "err", NoVal)
     ELSE Return(save(w1), "ok",
                 [token |-> TokenV4_new(OwnUrl, e.extracted), fee |-> swap_fee])

\* prepare_cashu_token up to the swap request or, without one, to its end
\* (wallet.rs:491-499, 762-772)
SendRun(w, o, amount) ==
  LET p == prepare_amounts_for_swap_before_spend(w, o, amount)
      s == SwapSend(p.w, o, p.input_proofs, TRUE, p.output_amounts)
  IN IF Sum(Amounts(w.proofs)) < amount THEN Return(w, "err", NoVal) /\ UNCHANGED loc
     ELSE IF p.st # "ok" THEN Return(p.w, p.st, NoVal) /\ UNCHANGED loc
     ELSE IF p.input_proofs # <<>> /\ p.output_amounts # <<>>
     THEN IF s.st # "sent" THEN Return(s.w, s.st, NoVal) /\ UNCHANGED loc
          ELSE /\ Commit(s.w)
               /\ pc' = "swap"
               /\ loc' = [caller |-> "send", req |-> s.req,
                          amounts_to_spend |-> p.amounts_to_spend]
               /\ UNCHANGED result
     ELSE SendFinish(p.w, p.amounts_to_spend, 0) /\ UNCHANGED loc

Send ==
  \E amount \in 0..MaxAmount, o \in Choices :
    /\ Call([op |-> "send", amount |-> amount])
    /\ SendRun(Wallet, o, amount)

(* ------------------------------ receive -------------------------------- *)

\* receive_via_cashu_token from the swap on (wallet.rs:519-522)
ReceiveSwap(w, o, token) ==
  LET s == SwapSend(w, o, token.proofs, FALSE, <<>>)
  IN IF s.st # "sent" THEN Return(s.w, s.st, NoVal) /\ UNCHANGED loc
     ELSE /\ Commit(s.w)
          /\ pc' = "swap"
          /\ loc' = [caller |-> "receive", req |-> s.req]
          /\ UNCHANGED result

\* ReceiveRun without the comparison of the urls: a token of any mint is swapped
ReceiveRun_AnyMint(w, o, token) == ReceiveSwap(w, o, token)

\* receive_via_cashu_token up to the swap request (wallet.rs:509-522)
ReceiveRun(w, o, token) ==
  IF token.mint_url # OwnUrl
  THEN Return(w, "err", [error |-> "foreign mint"]) /\ UNCHANGED loc
  ELSE ReceiveSwap(w, o, token)

Receive ==
  \E token \in Tokens, o \in Choices :
    /\ Call([op |-> "receive", token |-> token])
    /\ ReceiveRun(Wallet, o, token)

\* receive_via_cashu_token from the swap's answer on (wallet.rs:522-528)
ReceiveFinish(r) ==
  IF r.st # "ok" THEN Return(r.w, r.st, NoVal)
  ELSE Return(save([r.w EXCEPT !.proofs = @ \o r.new_proofs]), "ok",
              [amount |-> token_amount(call.token), fee |-> r.fee])

\* prepare_inputs_for_spend from the swap's answer on (wallet.rs:770-784)
SendAfterSwap(r) ==
  IF r.st # "ok" THEN Return(r.w, r.st, NoVal)
  ELSE SendFinish(save([r.w EXCEPT !.proofs = @ \o r.new_proofs]),
                  loc.amounts_to_spend, r.fee)

(* ------------------------------- mint ---------------------------------- *)

\* QuoteState
QuoteStates == {"UNPAID", "PAID", "ISSUED"}

\* BTreeMap::insert
MapInsert(map, k, v) == [x \in DOMAIN map \cup {k} |-> IF x = k THEN v ELSE map[x]]

\* the loop that builds minting_secrets (wallet.rs:179-188): the i-th output's
\* secret is stored under its amount
RECURSIVE MintSecrets(_, _, _)
MintSecrets(amounts, secret, map) ==
  IF amounts = <<>> THEN map
  ELSE MintSecrets(Tail(amounts), secret + 1, MapInsert(map, Head(amounts), secret))

\* mint_tokens: the quote is asked for (wallet.rs:143-144)
Mint ==
  \E amount \in 0..MaxAmount :
    /\ Call([op |-> "mint", amount |-> amount])
    /\ pc' = "mint_quote"
    /\ trace' = <<"mint_quote">>
    /\ UNCHANGED <<proofs, saved, keysets, keys, next, loc, result, cache>>

\* the ids a mint gives to its quotes; a mint gives every quote it creates
\* an id of its own
QuoteIds == 1..MaxQuotes

\* the answer to the quote request: the quote is kept and its state is asked
\* for (wallet.rs:144-153)
MintQuoteResp ==
  /\ pc = "mint_quote"
  /\ \E ok \in BOOLEAN, id \in QuoteIds \ Range(mint_quotes) :
       IF ok
       THEN /\ pc' = "check_quote"
            /\ trace' = Append(trace, "check_quote")
            /\ mint_quotes' = Append(mint_quotes, id)
            /\ UNCHANGED <<proofs, saved, keysets, keys, next, result, cache>>
       ELSE Return(Log(Wallet, "fail"), "err", NoVal) /\ UNCHANGED mint_quotes
  /\ UNCHANGED <<mint, call, loc, pre, answers, minted>>

\* mint_tokens for a PAID quote up to the mint request (wallet.rs:160-190)
MintSend(w, o, amount) ==
  LET amounts == split_amount(amount)
      g == get_keysets(w, o)
      a == for_unit(mint_keysets(TRUE), "sat")
      gk == get_keys(g.w, o)
      ak == by_id(mint.keys, a[1].id)
      w2 == Log([gk.w EXCEPT !.next = @ + Len(amounts)], "mint")
  IN IF ~g.ok THEN Return(g.w, "err", NoVal) /\ UNCHANGED loc
     ELSE IF a = <<>> THEN Return(g.w, "err", NoVal) /\ UNCHANGED loc
     ELSE IF ~gk.ok THEN Return(gk.w, "err", NoVal) /\ UNCHANGED loc
     ELSE IF ak = <<>> THEN Return(gk.w, "err", NoVal) /\ UNCHANGED loc
     ELSE /\ Commit(w2)
          /\ pc' = "minting"
          /\ loc' = [caller |-> "mint",
                     req |-> [outputs |-> amounts,
                              secrets |-> MintSecrets(amounts, gk.w.next, <<>>),
                              keyset_id |-> a[1].id, active_keys |-> ak[1].keys]]
          /\ UNCHANGED result

\* MintAfterCheck without the test for ISSUED: every state but UNPAID is
\* taken for a paid quote
MintAfterCheck_IssuedAsPaid(w, o, state, amount) ==
  IF state # "UNPAID" THEN MintSend(w, o, amount)
  ELSE Return(w, "err", [error |-> "not paid"]) /\ UNCHANGED loc

\* mint_tokens on the checked state of the quote (wallet.rs:153-160, 222-224)
MintAfterCheck(w, o, state, amount) ==
  IF state = "ISSUED" THEN Return(w, "err", [error |-> "issued"]) /\ UNCHANGED loc
  ELSE IF state = "PAID" THEN MintSend(w, o, amount)
  ELSE Return(w, "err", [error |-> "not paid"]) /\ UNCHANGED loc

\* quote_id taken from the first quote the wallet keeps, not from the new one
quote_id_First == mint_quotes[1]

\* the quote_id of mint_tokens: the id of the quote just created
\* (wallet.rs:144-150)
quote_id == mint_quotes[Len(mint_quotes)]

\* the outputs of a request: the i-th BlindedMessage has the i-th amount and
\* the B_ of the i-th secret generated (wallet.rs:179-185)
BlindedMessages(amounts, secret) ==
  [i \in DOMAIN amounts |-> [amount |-> amounts[i], b_ |-> secret + i - 1]]

\* the answer to the state request (wallet.rs:153-154); the mint request, if
\* one is sent, carries quote_id and the outputs (wallet.rs:190).  The quote was
\* asked for with the amount only (wallet.rs:144, 794-800), so no public key
\* was sent for it, and do_minting is given no signature.
MintCheckResp ==
  /\ pc = "check_quote"
  /\ \E state \in QuoteStates \cup {"fail"}, o \in Choices :
     /\ answers' = Append(answers, [to |-> "check_quote", state |-> state])
     /\ IF state = "fail" THEN Return(Log(Wallet, "fail"), "err", NoVal) /\ UNCHANGED loc
        ELSE MintAfterCheck(Wallet, o, state, call.amount)
  /\ minted' = IF pc' = "minting"
               THEN Append(minted, [quote |-> quote_id, state |-> answers'[Len(answers')].state,
                                    pubkey |-> <<>>,
                                    outputs |-> BlindedMessages(loc'.req.outputs, next),
                                    signature |-> <<>>])
               ELSE minted
  /\ UNCHANGED <<mint, call, pre, mint_quotes>>

\* the loop over the promises of mint_tokens (wallet.rs:197-217): each proof
\* is pushed to the store as it is built
RECURSIVE MintUnblind(_, _, _, _)
MintUnblind(promises, req, w, minted_amounts) ==
  IF promises = <<>> THEN [ok |-> TRUE, w |-> w, minted_amounts |-> minted_amounts]
  ELSE IF Head(promises) \notin req.active_keys
       THEN [ok |-> FALSE, w |-> w, minted_amounts |-> minted_amounts]
  ELSE IF Head(promises) \notin DOMAIN req.secrets
       THEN [ok |-> FALSE, w |-> w, minted_amounts |-> minted_amounts]
  ELSE MintUnblind(Tail(promises), req,
         [w EXCEPT !.proofs = Append(@, construct_proof(Head(promises), req.keyset_id,
                                                         req.secrets[Head(promises)]))],
         Append(minted_amounts, Head(promises)))

\* the answer to the mint request (wallet.rs:190-221)
MintResp ==
  /\ pc = "minting"
  /\ \E resp \in Responses(loc.req.outputs) :
       LET u == MintUnblind(resp.sigs, loc.req, save(Wallet), <<>>)
       IN /\ answers' = Append(answers, [to |-> "mint", ok |-> resp.ok, sigs |-> resp.sigs])
          /\ IF ~resp.ok THEN Return(Log(Wallet, "fail"), "err", NoVal)
             ELSE IF ~u.ok THEN Return(u.w, "err", NoVal)
             ELSE Return(save(u.w), "ok", [minted_amounts |-> u.minted_amounts])
  /\ UNCHANGED <<mint, call, loc, pre, mint_quotes, minted>>

(* ------------------------------- melt ---------------------------------- *)

\* melt_tokens once extract_proofs_for_melting returned Ok(ps), up to the melt
\* request (wallet.rs:247-280).  q is the quote.
MeltSend(w, o, ps, q) ==
  LET g == get_keysets(w, o)
      a == for_unit(mint_keysets(TRUE), "sat")
      gk == get_keys(g.w, o)
      ak == by_id(mint.keys, a[1].id)
      blank_outputs_num == calculate_number_of_blank_outputs(q.fee_reserve)
      w2 == Log([gk.w EXCEPT !.next = @ + blank_outputs_num], "melt")
      after == [caller |-> "melt", quote |-> q, extracted |-> ps]
  IN IF ~g.ok THEN Return(g.w, "err", NoVal) /\ loc' = after
     ELSE IF a = <<>> THEN Return(Restore(g.w, ps), "err", NoVal) /\ loc' = after
     ELSE IF ~gk.ok THEN Return(gk.w, "err", NoVal) /\ loc' = after
     ELSE IF ak = <<>> THEN Return(Restore(gk.w, ps), "err", NoVal) /\ loc' = after
     ELSE /\ Commit(w2)
          /\ pc' = "melting"
          /\ loc' = [caller |-> "melt", quote |-> q, extracted |-> ps,
                     req |-> [inputs |-> ps, blank_outputs |-> blank_outputs_num,
                              outputs |-> [i \in 1..blank_outputs_num |->
                                             [amount |-> 1, id |-> a[1].id]],
                              secrets |-> [i \in 1..blank_outputs_num |-> gk.w.next + i - 1],
                              keyset_id |-> a[1].id, active_keys |-> ak[1].keys]]
          /\ UNCHANGED result

\* the end of extract_proofs_for_melting (wallet.rs:456-488), then melt_tokens
MeltTail(w, o, proofs_to_melt, additional_amounts_to_melt, sum_fee_ppk0, q) ==
  LET e == extract_proofs_with_amounts(w.proofs, additional_amounts_to_melt)
      w1 == [w EXCEPT !.proofs = e.proofs]
      additional_proofs_to_melt == e.extracted
      g == IF additional_proofs_to_melt = <<>> THEN [ok |-> TRUE, w |-> w1]
           ELSE get_keysets(w1, o)
      sum_fee_ppk == sum_fee_ppk0 + SumFeePpk(additional_proofs_to_melt)
      all == proofs_to_melt \o additional_proofs_to_melt
      total_inputs_fee == DivCeil(sum_fee_ppk, 1000)
  IN IF ~e.ok THEN Return(Restore(w1, proofs_to_melt), "err", NoVal) /\ UNCHANGED loc
     ELSE IF ~g.ok THEN Return(g.w, "err", NoVal) /\ UNCHANGED loc
     ELSE IF ~AllKnown(additional_proofs_to_melt)
     THEN Return(g.w, "err", NoVal) /\ UNCHANGED loc                \* Missing keyset
     ELSE IF total_inputs_fee < DivCeil(sum_fee_ppk, 1000)
     THEN Return(save(Restore(g.w, all)), "err", NoVal) /\ UNCHANGED loc
     ELSE MeltSend(g.w, o, all, q)

\* extract_proofs_for_melting where a swap is planned: the request is sent or
\* the swap is skipped (wallet.rs:442-454)
MeltSwap(w, o, c, p) ==
  LET s == SwapSend(w, o, p.input_proofs, TRUE, p.output_amounts)
  IN IF p.input_proofs # <<>> /\ p.output_amounts # <<>>
     THEN IF s.st = "err"
          THEN Return(Restore(s.w, c.proofs_to_melt), "err", NoVal) /\ UNCHANGED loc
          ELSE IF s.st = "panic" THEN Return(s.w, "panic", NoVal) /\ UNCHANGED loc
          ELSE /\ Commit(s.w)
               /\ pc' = "swap"
               /\ loc' = [caller |-> "melt", req |-> s.req, quote |-> c.quote,
                          proofs_to_melt |-> c.proofs_to_melt,
                          additional_amounts_to_melt |-> p.amounts_to_spend,
                          sum_fee_ppk |-> c.sum_fee_ppk]
               /\ UNCHANGED result
     ELSE MeltTail(w, o, c.proofs_to_melt, p.amounts_to_spend, c.sum_fee_ppk, c.quote)

\* the second plan, made when the fee estimate exceeds the fee included
\* (wallet.rs:413-440)
MeltReplan(w, o, c, p, fee_estimate) ==
  LET new_additional_amount_to_spend ==
        c.additional_amount_to_spend + (fee_estimate - c.inputs_fee)
      w1 == Log([w EXCEPT !.proofs = @ \o p.input_proofs], "replan")   \* wallet.rs:422
      p2 == prepare_amounts_for_swap_before_spend(w1, o, new_additional_amount_to_spend)
  IN IF c.have_total < c.amount_to_melt + fee_estimate
     THEN Return(save(w1), "err", NoVal) /\ UNCHANGED loc
     ELSE IF p2.st = "err"
     THEN Return(Restore(p2.w, c.proofs_to_melt), "err", NoVal) /\ UNCHANGED loc
     ELSE IF p2.st = "panic" THEN Return(p2.w, "panic", NoVal) /\ UNCHANGED loc
     ELSE MeltSwap(p2.w, o, c, p2)

\* extract_proofs_for_melting from the first plan on (wallet.rs:395-454)
MeltPlan(w, o, c) ==
  LET p == prepare_amounts_for_swap_before_spend(w, o, c.additional_amount_to_spend)
      amounts_count == Len(p.amounts_to_spend)
      g == get_keysets(p.w, o)
      a == for_unit(mint_keysets(TRUE), "sat")
      active_fee_ppk == a[1].input_fee_ppk
      fee_estimate == DivCeil(c.sum_fee_ppk + amounts_count * active_fee_ppk, 1000)
  IN IF p.st = "err"
     THEN Return(Restore(p.w, c.proofs_to_melt), "err", NoVal) /\ UNCHANGED loc
     ELSE IF p.st = "panic" THEN Return(p.w, "panic", NoVal) /\ UNCHANGED loc
     ELSE IF p.input_proofs # <<>> /\ p.output_amounts # <<>>
     THEN IF ~g.ok THEN Return(g.w, "err", NoVal) /\ UNCHANGED loc
          ELSE IF a = <<>>
          THEN Return(Restore(g.w, p.input_proofs), "err", NoVal) /\ UNCHANGED loc
          ELSE IF c.inputs_fee < fee_estimate THEN MeltReplan(g.w, o, c, p, fee_estimate)
          ELSE MeltSwap(g.w, o, c, p)
     ELSE MeltTail(p.w, o, c.proofs_to_melt, p.amounts_to_spend, c.sum_fee_ppk, c.quote)

\* the loop of extract_proofs_for_melting over the sorted amounts
\* (wallet.rs:341-354): [acc, spend]
RECURSIVE MeltLoop(_, _, _, _)
MeltLoop(avail, acc, spend, amount_to_melt) ==
  IF avail = <<>> THEN [acc |-> acc, spend |-> spend]
  ELSE IF acc + Head(avail) < amount_to_melt
       THEN MeltLoop(Tail(avail), acc + Head(avail), Append(spend, Head(avail)), amount_to_melt)
       ELSE [acc |-> acc, spend |-> spend]

\* extract_proofs_for_melting up to the first plan (wallet.rs:327-393)
MeltExtract(w, o, amount_to_melt, q) ==
  LET available_amounts == SortAsc(Amounts(w.proofs))
      have_total == Sum(available_amounts)
      sub == find_subset_sum(available_amounts, amount_to_melt)
      l == MeltLoop(available_amounts, 0, <<>>, amount_to_melt)
      amounts_to_melt == IF sub.found THEN sub.subset ELSE l.spend
      missing_amount == IF sub.found THEN 0 ELSE amount_to_melt - l.acc
      e == extract_proofs_with_amounts(w.proofs, amounts_to_melt)
      w1 == [w EXCEPT !.proofs = e.proofs]
      proofs_to_melt == e.extracted
      g == IF proofs_to_melt = <<>> THEN [ok |-> TRUE, w |-> w1] ELSE get_keysets(w1, o)
      sum_fee_ppk == SumFeePpk(proofs_to_melt)
      inputs_fee == DivCeil(sum_fee_ppk, 1000)
      c == [amount_to_melt |-> amount_to_melt, have_total |-> have_total, quote |-> q,
            proofs_to_melt |-> proofs_to_melt, sum_fee_ppk |-> sum_fee_ppk,
            inputs_fee |-> inputs_fee,
            additional_amount_to_spend |-> inputs_fee + missing_amount]
  IN IF have_total < amount_to_melt THEN Return(w, "panic", NoVal) /\ UNCHANGED loc
     ELSE IF ~e.ok THEN Return(w1, "err", NoVal) /\ UNCHANGED loc
     ELSE IF ~g.ok THEN Return(g.w, "err", NoVal) /\ UNCHANGED loc
     ELSE IF ~AllKnown(proofs_to_melt)
     THEN Return(g.w, "err", NoVal) /\ UNCHANGED loc                \* Missing keyset
     ELSE IF have_total < amount_to_melt + inputs_fee
     THEN Return(save(Restore(g.w, proofs_to_melt)), "err", NoVal) /\ UNCHANGED loc
     ELSE MeltPlan(g.w, o, c)

\* melt_tokens: the quote is asked for (wallet.rs:227-231)
Melt ==
  /\ Call([op |-> "melt"])
  /\ pc' = "melt_quote"
  /\ trace' = <<"melt_quote">>
  /\ UNCHANGED <<proofs, saved, keysets, keys, next, loc, result, cache>>

\* the answer to the quote request, and melt_tokens up to the next request
\* (wallet.rs:231-245)
MeltQuoteResp ==
  /\ pc = "melt_quote"
  /\ \E ok \in BOOLEAN, amount \in 0..MaxMeltAmount, fee_reserve \in 0..MaxFeeReserve,
        o \in Choices :
       LET have_total == Sum(Amounts(proofs))
           q == [amount |-> amount, fee_reserve |-> fee_reserve]
           total_amount == amount + fee_reserve
       IN IF ~ok
          THEN /\ Return(Log(Wallet, "fail"), "err", NoVal)
               /\ UNCHANGED <<loc, answers>>
          ELSE /\ answers' = Append(answers, [to |-> "melt_quote", quote |-> q])
               /\ IF have_total < total_amount
                  THEN Return(Wallet, "err", NoVal) /\ UNCHANGED loc
                  ELSE MeltExtract(Wallet, o, total_amount, q)
  /\ UNCHANGED <<mint, call, pre, mint_quotes, minted>>

(* ----------------------- the answers to swap and melt ------------------ *)

\* the answer to a swap request: swap_proofs ends and its caller goes on
\* (wallet.rs:601-628; 770-784; 522-528; 445-488 and 247-280)
SwapResp ==
  /\ pc = "swap"
  /\ \E resp \in Responses(loc.req.outputs), o \in Choices :
       LET r == SwapReceive(Wallet, loc.req, resp)
           got == save([r.w EXCEPT !.proofs = @ \o r.new_proofs])
       IN /\ answers' = Append(answers, [to |-> "swap", ok |-> resp.ok, sigs |-> resp.sigs,
                                         asked |-> loc.req.outputs])
          /\ IF loc.caller = "send" THEN SendAfterSwap(r) /\ UNCHANGED loc
             ELSE IF loc.caller = "receive" THEN ReceiveFinish(r) /\ UNCHANGED loc
             ELSE IF r.st # "ok"
             THEN Return(Restore(r.w, loc.proofs_to_melt), "err", NoVal) /\ UNCHANGED loc
             ELSE MeltTail(got, o, loc.proofs_to_melt, loc.additional_amounts_to_melt,
                           loc.sum_fee_ppk, loc.quote)
  /\ UNCHANGED <<mint, call, pre, mint_quotes, minted>>

\* what the mint may answer to a melt request: no answer or a non-2xx one, or a
\* quote with a state and a list of change signatures (none is the empty list)
MeltResponses ==
  {[ok |-> FALSE, state |-> "UNPAID", change |-> <<>>]} \cup
  {[ok |-> TRUE, state |-> st, change |-> ch] :
     st \in {"UNPAID", "PAID"},
     ch \in UNION {[1..k -> Denominations] : k \in 0..MaxDishonest}}

\* MeltChange that stops without an error at a promise that has no secret
RECURSIVE MeltChange_IgnoresSurplus(_, _, _, _)
MeltChange_IgnoresSurplus(promises, i, req, w) ==
  IF i > Len(promises) THEN [ok |-> TRUE, w |-> w]
  ELSE IF promises[i] \notin req.active_keys THEN [ok |-> FALSE, w |-> w]
  ELSE IF i > Len(req.secrets) THEN [ok |-> TRUE, w |-> w]
  ELSE MeltChange_IgnoresSurplus(promises, i + 1, req,
         [w EXCEPT !.proofs = Append(@, construct_proof(promises[i], req.keyset_id,
                                                         req.secrets[i]))])

\* the loop over the change of melt_tokens (wallet.rs:295-313): the i-th
\* promise takes the i-th secret
RECURSIVE MeltChange(_, _, _, _)
MeltChange(promises, i, req, w) ==
  IF i > Len(promises) THEN [ok |-> TRUE, w |-> w]
  ELSE IF promises[i] \notin req.active_keys THEN [ok |-> FALSE, w |-> w]
  ELSE IF i > Len(req.secrets) THEN [ok |-> FALSE, w |-> w]
  ELSE MeltChange(promises, i + 1, req,
         [w EXCEPT !.proofs = Append(@, construct_proof(promises[i], req.keyset_id,
                                                         req.secrets[i]))])

\* MeltRequestFailed without the append of the inputs
MeltRequestFailed_NoRestore(w, inputs) == save(Log(w, "fail"))

\* the Err arm of melt_tokens after the melt request (wallet.rs:282-288): the
\* inputs go back to the store and the wallet is saved
MeltRequestFailed(w, inputs) == save(Restore(Log(w, "fail"), inputs))

\* MeltResp without the save after the change proofs were appended
MeltResp_NoSaveAfterChange ==
  /\ pc = "melting"
  /\ \E resp \in MeltResponses :
       LET ch == MeltChange(resp.change, 1, loc.req, save(Wallet))
       IN /\ answers' = Append(answers, [to |-> "melt", ok |-> resp.ok,
                                         state |-> resp.state, change |-> resp.change])
          /\ IF ~resp.ok
             THEN Return(MeltRequestFailed(Wallet, loc.req.inputs), "err", NoVal)
             ELSE IF ~ch.ok THEN Return(ch.w, "err", NoVal)
             ELSE Return(ch.w, "ok", [state |-> resp.state])
  /\ UNCHANGED <<mint, call, loc, pre, mint_quotes, minted>>

\* the answer to the melt request (wallet.rs:277-323)
MeltResp ==
  /\ pc = "melting"
  /\ \E resp \in MeltResponses :
       LET ch == MeltChange(resp.change, 1, loc.req, save(Wallet))
       IN /\ answers' = Append(answers, [to |-> "melt", ok |-> resp.ok,
                                         state |-> resp.state, change |-> resp.change])
          /\ IF ~resp.ok
             THEN Return(MeltRequestFailed(Wallet, loc.req.inputs), "err", NoVal)
             ELSE IF ~ch.ok THEN Return(ch.w, "err", NoVal)
             ELSE Return(IF resp.change # <<>> THEN save(ch.w) ELSE ch.w, "ok",
                         [state |-> resp.state])
  /\ UNCHANGED <<mint, call, loc, pre, mint_quotes, minted>>

(* --------------------------- specification ----------------------------- *)

Next ==
  \/ Send
  \/ Receive
  \/ Mint
  \/ MintQuoteResp
  \/ MintCheckResp
  \/ MintResp
  \/ Melt
  \/ MeltQuoteResp
  \/ SwapResp
  \/ MeltResp

Spec == Init /\ [][Next]_vars

\* a wallet just created: no proofs, no quotes, nothing fetched
\* (wallet.rs:67-90)
InitCreated ==
  /\ mint \in Mints
  /\ proofs = <<>>
  /\ saved = proofs
  /\ keysets = FALSE
  /\ keys = FALSE
  /\ next = MaxStore + MaxToken + 1
  /\ pc = "idle"
  /\ call = [op |-> "none"]
  /\ loc = [caller |-> "none"]
  /\ pre = proofs
  /\ trace = <<>>
  /\ answers = <<>>
  /\ result = [st |-> "none", val |-> NoVal]
  /\ mint_quotes = <<>>
  /\ minted = <<>>
  /\ cache = NoCache

\* the command loop: the result of a command, Ok or Err, is printed and the
\* next command is read; a panic ends the program (repl.rs:56-98)
NextCommand ==
  /\ pc = "done"
  /\ result.st \in {"ok", "err"}
  /\ Len(mint_quotes) < MaxQuotes
  /\ pc' = "idle"
  /\ call' = [op |-> "none"]
  /\ loc' = [caller |-> "none"]
  /\ trace' = <<>>
  /\ answers' = <<>>
  /\ result' = [st |-> "none", val |-> NoVal]
  /\ UNCHANGED <<mint, proofs, saved, keysets, keys, next, pre, mint_quotes, minted, cache>>

\* a wallet over its lifetime, minting again and again
NextMinting ==
  \/ Mint
  \/ MintQuoteResp
  \/ MintCheckResp
  \/ MintResp
  \/ NextCommand

SpecMinting == InitCreated /\ [][NextMinting]_vars

(* ----------------------- the mint client on its own --------------------- *)

\* the requests of the mint client: the three memoized GETs (mint.rs:72-101)
\* and the six requests that are sent on every call (mint.rs:104-267)
Memoized == {"get_info", "get_keys", "get_keysets"}

Rpcs == Memoized \cup {"create_mint_quote", "get_mint_quote", "do_minting", "do_swap",
                       "create_melt_quote", "do_melting"}

\* the field of Mint a memoized request fills
Slot(rpc) ==
  IF rpc = "get_info" THEN "info" ELSE IF rpc = "get_keys" THEN "keys" ELSE "keysets"

\* what may come back on a request: nothing (send() fails), or a status and a
\* body; the bodies "a" and "b" are JSON of the expected type, "garbage" is not
Statuses == {200, 404}

Bodies == {"a", "b", "garbage"}

HttpAnswers ==
  {[sent |-> FALSE]} \cup {[sent |-> TRUE, status |-> st, body |-> b] : st \in Statuses, b \in Bodies}

\* StatusCode::is_success
is_success(status) == status \in 200..299

\* Response::json: the value of the body, or an error
json(body) == IF body = "garbage" THEN <<>> ELSE <<body>>

Ok(v) == [st |-> "ok", val |-> v]

Err(e) == [st |-> "err", val |-> e]

\* the test of a memoized request that always finds the field empty
CacheHit_Never(rpc) == FALSE

\* self.info.is_none() and the like, negated (mint.rs:73, 84, 95)
CacheHit(rpc) == cache[Slot(rpc)] # <<>>

\* the result of a memoized request on the answer r (mint.rs:74-76): the
\* status is not looked at
MemoizedResult(r) ==
  IF ~r.sent THEN Err([error |-> "send"])
  ELSE IF json(r.body) = <<>> THEN Err([error |-> "decode"])
  ELSE Ok(json(r.body)[1])

\* the result of the other requests on the answer r (mint.rs:126-130)
CheckedResult(r) ==
  IF ~r.sent THEN Err([error |-> "send"])
  ELSE IF is_success(r.status)
       THEN IF json(r.body) = <<>> THEN Err([error |-> "decode"]) ELSE Ok(json(r.body)[1])
       ELSE Err([error |-> "response", status |-> r.status, body |-> r.body])

\* a mint client just made (mint.rs:55-64)
InitClient ==
  /\ mint = CHOOSE m \in Mints : TRUE
  /\ proofs = <<>>
  /\ saved = proofs
  /\ keysets = FALSE
  /\ keys = FALSE
  /\ next = MaxStore + MaxToken + 1
  /\ pc = "idle"
  /\ call = [op |-> "none"]
  /\ loc = [caller |-> "none"]
  /\ pre = proofs
  /\ trace = <<>>
  /\ answers = <<>>
  /\ result = [st |-> "none", val |-> NoVal]
  /\ mint_quotes = <<>>
  /\ minted = <<>>
  /\ cache = NoCache

\* the fields of Mint after a step of the client
ClientCache(c) ==
  /\ cache' = c
  /\ keysets' = (c.keysets # <<>>)
  /\ keys' = (c.keys # <<>>)
  /\ UNCHANGED <<mint, proofs, saved, next, loc, pre, mint_quotes, minted>>

\* a method of the client is called: a memoized one whose field is filled
\* returns it, any other sends its request
ClientCall ==
  /\ pc = "idle"
  /\ \E rpc \in Rpcs :
       /\ call' = [op |-> rpc]
       /\ answers' = <<>>
       /\ IF rpc \in Memoized /\ CacheHit(rpc)
          THEN /\ pc' = "done"
               /\ trace' = <<>>
               /\ result' = Ok(cache[Slot(rpc)][1])
          ELSE /\ pc' = "http"
               /\ trace' = <<rpc>>
               /\ result' = [st |-> "none", val |-> NoVal]
  /\ ClientCache(cache)

\* the answer to the request, and what the method makes of it
ClientResp ==
  /\ pc = "http"
  /\ \E r \in HttpAnswers :
       LET res == IF call.op \in Memoized THEN MemoizedResult(r) ELSE CheckedResult(r)
       IN /\ answers' = <<r>>
          /\ result' = res
          /\ ClientCache(IF call.op \in Memoized /\ res.st = "ok"
                         THEN [cache EXCEPT ![Slot(call.op)] = <<res.val>>]
                         ELSE cache)
  /\ pc' = "done"
  /\ UNCHANGED <<call, trace>>

\* the caller goes on to its next call of the client
ClientReturn ==
  /\ pc = "done"
  /\ pc' = "idle"
  /\ call' = [op |-> "none"]
  /\ trace' = <<>>
  /\ answers' = <<>>
  /\ result' = [st |-> "none", val |-> NoVal]
  /\ ClientCache(cache)

NextClient ==
  \/ ClientCall
  \/ ClientResp
  \/ ClientReturn

SpecClient == InitClient /\ [][NextClient]_vars

\* MintQuote::sign (types.rs:20-32): the Schnorr signature by secret_key of
\* the quote id followed by the B_ of the outputs in their order
sign(quote, outputs, secret_key) ==
  [msg |-> <<quote>> \o [i \in DOMAIN outputs |-> outputs[i].b_], by |-> secret_key]

(* ---------------------------- the V4 token ------------------------------ *)

(* A V4 token holds its proofs in groups, one keyset id per group; a proof   *)
(* in a group is written without its keyset id.  How a list of proofs is put *)
(* into groups is open: a group per keyset id, in the order in which the ids *)
(* first occur, or a group per run of proofs of the same keyset.             *)

\* the proofs of ps with the keyset id, in their order, as written in a group
OfKeyset(ps, id) ==
  LET keep == {i \in DOMAIN ps : ps[i].keyset_id = id}
      nth(k) == CHOOSE i \in keep : Cardinality({j \in keep : j < i}) = k - 1
  IN [k \in 1..Cardinality(keep) |-> [a |-> ps[nth(k)].amount, s |-> ps[nth(k)].secret]]

\* one group per keyset id
RECURSIVE GroupById(_)
GroupById(ps) ==
  IF ps = <<>> THEN <<>>
  ELSE LET id == Head(ps).keyset_id
           rest == SelectSeq(ps, LAMBDA p : p.keyset_id # id)
       IN <<[i |-> id, p |-> OfKeyset(ps, id)]>> \o GroupById(rest)

\* one group per run of proofs of the same keyset
RECURSIVE GroupRuns(_)
GroupRuns(ps) ==
  IF ps = <<>> THEN <<>>
  ELSE LET id == Head(ps).keyset_id
           rest == GroupRuns(Tail(ps))
           first == [a |-> Head(ps).amount, s |-> Head(ps).secret]
       IN IF rest # <<>> /\ rest[1].i = id
          THEN <<[i |-> id, p |-> <<first>> \o rest[1].p]>> \o Tail(rest)
          ELSE <<[i |-> id, p |-> <<first>>]>> \o rest

\* TokenV4::new and its text: cashuB and the object with the keys m, u, t
TokenV4_encode(mint_url, unit, groups) ==
  [prefix |-> "cashuB", m |-> mint_url, u |-> unit, t |-> groups]

\* the proofs of a group, each with the keyset id of the group
GroupProofs(g) ==
  [k \in DOMAIN g.p |-> [secret |-> g.p[k].s, amount |-> g.p[k].a, keyset_id |-> g.i]]

\* the proofs of the groups with the last group first
RECURSIVE TokenProofs_Reversed(_)
TokenProofs_Reversed(groups) ==
  IF groups = <<>> THEN <<>>
  ELSE TokenProofs_Reversed(Tail(groups)) \o GroupProofs(Head(groups))

\* TokenV4::proofs: the proofs of the groups, group after group
RECURSIVE TokenProofs(_)
TokenProofs(groups) ==
  IF groups = <<>> THEN <<>>
  ELSE GroupProofs(Head(groups)) \o TokenProofs(Tail(groups))

\* TokenV4::from_str: the prefix is stripped and the object is checked
TokenV4_decode(text) ==
  IF \/ text.prefix # "cashuB"
     \/ text.m = "" \/ text.u = ""
     \/ \E g \in DOMAIN text.t : text.t[g].p = <<>>
  THEN [ok |-> FALSE]
  ELSE LET token == [mint_url |-> text.m, unit |-> text.u,
                     proofs |-> TokenProofs(text.t)]
       IN [ok |-> TRUE, token |-> token, amount |-> token_amount(token)]

(* ------------------------------ the curve ------------------------------- *)

(* secp256k1 is a group of prime order with generator G.  The model takes   *)
(* the group of the integers modulo the prime CurveOrder with G = 1: the     *)
(* point k*G is the number k, the point at infinity is 0.  A PublicKey is    *)
(* never the point at infinity and a SecretKey is never 0.                   *)
CurveOrder == 7

Points == 1..(CurveOrder - 1)

Scalars == 1..(CurveOrder - 1)

\* PublicKey::combine: the sum, an error (<<>>) if it is the point at infinity
combine(a, b) ==
  LET c == (a + b) % CurveOrder IN IF c = 0 THEN <<>> ELSE <<c>>

\* PublicKey::mul_tweak: the point multiplied by the scalar
mul_tweak(P, tweak) ==
  LET c == (P * tweak) % CurveOrder IN IF c = 0 THEN <<>> ELSE <<c>>

\* a negate that returns the point itself
negate_Same(P) == P

\* PublicKey::negate
negate(P) == CurveOrder - P

\* SecretKey::public_key: k*G
public_key(k) == k % CurveOrder

\* BlindedSecret::from_bytes for a secret with hash_to_curve(secret) = Y and
\* the blinding factor r: B_ = Y + r*G
blind(Y, r) == combine(Y, public_key(r))

\* BlindSignature::construct_proof: C = C_ - r*K
construct_proof_C(C_, r, K) ==
  LET rK == mul_tweak(K, r)
  IN IF rK = <<>> THEN <<>> ELSE combine(C_, negate(rK[1]))

\* a secret is blinded with r, signed by the mint with its key k, and
\* unblinded with r and K = k*G: [blinded, C]
BlindSignUnblind(k, Y, r) ==
  LET B_ == blind(Y, r)
  IN IF B_ = <<>> THEN [blinded |-> FALSE, C |-> <<>>]
     ELSE LET C_ == mul_tweak(B_[1], k)
          IN [blinded |-> TRUE, C |-> construct_proof_C(C_[1], r, public_key(k))]

\* the loop of hash_to_curve with the test counter <= 2^16
RECURSIVE hash_to_curve_OneMore(_, _)
hash_to_curve_OneMore(valid, counter) ==
  IF counter <= HashAttempts
  THEN IF valid[counter]
       THEN [ok |-> TRUE, counter |-> counter, parity |-> "even", attempts |-> counter + 1]
       ELSE hash_to_curve_OneMore(valid, counter + 1)
  ELSE [ok |-> FALSE, error |-> "No valid point", attempts |-> counter]

\* the loop of hash_to_curve from counter on (crypto.rs:194-211), 2^16 being
\* HashAttempts: valid[c] tells whether the hash of the message's hash and
\* the counter c is the x-coordinate of a point.  The point returned is the
\* one of the counter, made with even parity.
RECURSIVE hash_to_curve(_, _)
hash_to_curve(valid, counter) ==
  IF counter < HashAttempts
  THEN IF valid[counter]
       THEN [ok |-> TRUE, counter |-> counter, parity |-> "even", attempts |-> counter + 1]
       ELSE hash_to_curve(valid, counter + 1)
  ELSE [ok |-> FALSE, error |-> "No valid point", attempts |-> counter]

(* ------------------- the denomination math on its own ------------------- *)

\* the slices of find_subset_sum: every sequence of up to MaxSlice amounts
SlicesOf(n) == UNION {[1..k -> 0..MaxElem] : k \in 0..n}

\* the stores extract_proofs_with_amounts is tried on: up to MaxExtract
\* proofs of one keyset
ExtractStores ==
  {ps \in ProofLists(MaxExtract, 0) : \A i \in DOMAIN ps : ps[i].keyset_id = "A"}

\* the calls of the functions: split_amount on every u64,
\* find_subset_sum on every slice and target, and
\* calculate_number_of_blank_outputs on the fee reserves up to MaxBlankFee
HelperCalls ==
  {[op |-> "split_amount", amount |-> n] : n \in 0..(Modulus - 1)}
  \cup {[op |-> "find_subset_sum", slice |-> S, target |-> t] :
          S \in SlicesOf(MaxSlice), t \in 0..MaxTarget}
  \cup {[op |-> "calculate_number_of_blank_outputs", fee_reserve |-> f] :
          f \in 0..MaxBlankFee}
  \cup {[op |-> "change", fee_reserve |-> f, change |-> c] :
          f \in 1..MaxChangeFee, c \in 0..MaxChangeFee}
  \cup {[op |-> "hash_to_curve", valid |-> v] : v \in [0..HashAttempts -> BOOLEAN]}
  \cup {[op |-> "token", mint_url |-> OwnUrl, unit |-> "sat", proofs |-> ps] :
          ps \in ProofLists(MaxExtract, 0)}
  \cup {[op |-> "construct_proof", k |-> k, Y |-> Y, r |-> r] :
          k \in Scalars, Y \in Points, r \in Scalars}
  \cup {[op |-> "extract_proofs_with_amounts", store |-> ps, amounts |-> a] :
          ps \in ExtractStores, a \in UNION {[1..k -> Denominations] : k \in 0..MaxExtract}}

\* a call of one of the functions is about to be made; no wallet is involved
InitHelpers ==
  /\ mint = CHOOSE m \in Mints : TRUE
  /\ proofs = <<>>
  /\ saved = proofs
  /\ keysets = FALSE
  /\ keys = FALSE
  /\ next = MaxStore + MaxToken + 1
  /\ pc = "idle"
  /\ call \in HelperCalls
  /\ loc = [caller |-> "none"]
  /\ pre = proofs
  /\ trace = <<>>
  /\ answers = <<>>
  /\ result = [st |-> "none", val |-> NoVal]
  /\ mint_quotes = <<>>
  /\ minted = <<>>
  /\ cache = NoCache

\* the function returns val
Returned(val) ==
  /\ pc' = "done"
  /\ result' = [st |-> "ok", val |-> val]
  /\ UNCHANGED <<mint, proofs, saved, keysets, keys, next, call, loc, pre, trace, answers,
                 mint_quotes, minted, cache>>

\* split_amount is called (wallet.rs:656-668)
SplitAmount ==
  /\ pc = "idle"
  /\ call.op = "split_amount"
  /\ Returned([amounts |-> split_amount(call.amount)])

\* find_subset_sum is called (helpers.rs:2-33)
FindSubsetSum ==
  /\ pc = "idle"
  /\ call.op = "find_subset_sum"
  /\ Returned(find_subset_sum(call.slice, call.target))

\* calculate_number_of_blank_outputs is called (wallet.rs:787-792)
BlankOutputs ==
  /\ pc = "idle"
  /\ call.op = "calculate_number_of_blank_outputs"
  /\ Returned([count |-> calculate_number_of_blank_outputs(call.fee_reserve)])

\* the blank outputs of a fee_reserve are counted and a change is split
\* (wallet.rs:787-792, 656-668)
ChangeSplit ==
  /\ pc = "idle"
  /\ call.op = "change"
  /\ Returned([count |-> calculate_number_of_blank_outputs(call.fee_reserve),
               amounts |-> split_amount(call.change)])

\* extract_proofs_with_amounts is called on a store (wallet.rs:631-654)
ExtractProofs ==
  /\ pc = "idle"
  /\ call.op = "extract_proofs_with_amounts"
  /\ Returned(extract_proofs_with_amounts(call.store, call.amounts))

\* a proof is constructed from a blind signature (wallet.rs:606-626)
ConstructProof ==
  /\ pc = "idle"
  /\ call.op = "construct_proof"
  /\ Returned(BlindSignUnblind(call.k, call.Y, call.r))

\* hash_to_curve is called on a message (crypto.rs:186-214)
HashToCurve ==
  /\ pc = "idle"
  /\ call.op = "hash_to_curve"
  /\ Returned(hash_to_curve(call.valid, 0))

\* a token is made of proofs, written as text (repl.rs:152-154) and parsed
\* again (repl.rs:158-159)
TokenRoundTrip ==
  /\ pc = "idle"
  /\ call.op = "token"
  /\ \E groups \in {GroupById(call.proofs), GroupRuns(call.proofs)} :
       Returned(TokenV4_decode(TokenV4_encode(call.mint_url, call.unit, groups)))

NextHelpers ==
  \/ TokenRoundTrip
  \/ HashToCurve
  \/ ConstructProof
  \/ SplitAmount
  \/ FindSubsetSum
  \/ BlankOutputs
  \/ ChangeSplit
  \/ ExtractProofs

SpecHelpers == InitHelpers /\ [][NextHelpers]_vars

(* ------------------------------ properties ----------------------------- *)

Balance(ps) == Sum(Amounts(ps))

\* the running operation has returned an Err / an Ok
Failed(op) == call.op = op /\ pc = "done" /\ result.st = "err"
Succeeded(op) == call.op = op /\ pc = "done" /\ result.st = "ok"

\* the last answer of the mint
LastAnswer == answers[Len(answers)]

\* every answer to a mint or swap request of the operation carries one
\* signature per requested output, with the requested amount
SignedAsRequested ==
  \A i \in DOMAIN answers :
    answers[i].to \in {"mint", "swap"} => answers[i].ok /\ answers[i].sigs = loc.req.outputs

NoDuplicates(ps) == \A i, j \in DOMAIN ps : i # j => ps[i] # ps[j]

Disjoint(ps, qs) == Range(ps) \cap Range(qs) = {}

\* C1: whenever melt_tokens returns an error, the sum of the amounts in the
\* store is the sum at the call.
C1_MeltErrorKeepsBalance ==
  Failed("melt") => Balance(proofs) = Balance(pre)

\* C2: whenever prepare_cashu_token returns an error, the sum of the amounts
\* in the store is the sum at the call, and every proof of the store at the
\* call, the input of the swap among them, is in the store.
C2_SendErrorKeepsBalance ==
  Failed("send") => /\ Balance(proofs) = Balance(pre)
                    /\ Range(pre) \subseteq Range(proofs)

C4_MeltProofsCoverFee ==
  (call.op = "melt" /\ "extracted" \in DOMAIN loc)
  => Balance(loc.extracted) >=
       loc.quote.amount + loc.quote.fee_reserve + DivCeil(SumFeePpk(loc.extracted), 1000)

\* C5: a proof is in one place at most: never twice in the store, and while a
\* swap or melt request is in flight none of its inputs, and none of the
\* proofs set aside for the melt, is in the store or in both lists.
C5_ProofInOnePlace ==
  /\ NoDuplicates(proofs)
  /\ pc \in {"swap", "melting"} =>
       /\ NoDuplicates(loc.req.inputs)
       /\ Disjoint(loc.req.inputs, proofs)
  /\ (pc = "swap" /\ loc.caller = "melt") =>
       /\ NoDuplicates(loc.proofs_to_melt)
       /\ Disjoint(loc.proofs_to_melt, proofs)
       /\ Disjoint(loc.proofs_to_melt, loc.req.inputs)

\* C6: mint_tokens sends the mint request only after the state PAID was
\* returned; on ISSUED it fails with the already-issued error, on UNPAID with
\* the not-paid error, and in both cases no request with outputs was sent, no
\* secret was drawn and the store is as at the call.
C6_MintOnlyWhenPaid ==
  call.op = "mint" =>
    /\ (pc = "minting" \/ "mint" \in Range(trace)) =>
         (answers # <<>> /\ answers[1] = [to |-> "check_quote", state |-> "PAID"])
    /\ (pc = "done" /\ answers # <<>> /\ answers[1].state \in {"ISSUED", "UNPAID"}) =>
         /\ result.st = "err"
         /\ result.val = [error |-> IF answers[1].state = "ISSUED" THEN "issued"
                                    ELSE "not paid"]
         /\ "mint" \notin Range(trace)
         /\ next = MaxStore + MaxToken + 1
         /\ proofs = pre /\ saved = pre

\* a mint_tokens call that ended on the state ISSUED
C6_Witness ==
  /\ call.op = "mint" /\ pc = "done" /\ call.amount > 0
  /\ answers = <<[to |-> "check_quote", state |-> "ISSUED"]>>
  /\ result = [st |-> "err", val |-> [error |-> "issued"]]

\* C7: when mint_tokens(n) succeeds and the mint signed every output as
\* requested, the balance has grown by n and the new proofs have the amounts
\* of split_amount(n).
C7_MintAddsAmount ==
  (Succeeded("mint") /\ SignedAsRequested)
  => /\ Balance(proofs) = Balance(pre) + call.amount
     /\ SubSeq(proofs, 1, Len(pre)) = pre
     /\ Amounts(SubSeq(proofs, Len(pre) + 1, Len(proofs))) = split_amount(call.amount)

\* C8: when prepare_cashu_token(amount) succeeds and the mint signed every
\* output of the swap as requested, the token's proofs sum to amount and the
\* balance is the balance at the call less amount and the fee returned.
C8_SendTakesAmountAndFee ==
  (Succeeded("send") /\ SignedAsRequested)
  => /\ token_amount(result.val.token) = call.amount
     /\ Balance(proofs) = Balance(pre) - call.amount - result.val.fee

\* C9: when receive_via_cashu_token succeeds and the mint signed every output
\* as requested, it returns the token's amount and the fee
\* ceil(sum of input_fee_ppk of the token's proofs / 1000), and the balance
\* has grown by the amount less the fee.
C9_ReceiveAddsAmountLessFee ==
  (Succeeded("receive") /\ SignedAsRequested)
  => /\ result.val.amount = token_amount(call.token)
     /\ result.val.fee = DivCeil(SumFeePpk(call.token.proofs), 1000)
     /\ Balance(proofs) = Balance(pre) + token_amount(call.token) - result.val.fee

\* C10: receive_via_cashu_token of a token of another mint fails with the
\* foreign-mint error before any request, and the store and the persisted
\* wallet are as at the call.
C10_ForeignTokenRefused ==
  (call.op = "receive" /\ call.token.mint_url # OwnUrl)
  => /\ pc = "done"
     /\ result = [st |-> "err", val |-> [error |-> "foreign mint"]]
     /\ trace = <<>> /\ answers = <<>>
     /\ ~keysets /\ ~keys
     /\ proofs = pre /\ saved = pre

\* a receive of a token of another mint, with proofs in the token and in the
\* store, that has returned
C10_Witness ==
  /\ call.op = "receive" /\ call.token.mint_url = OtherUrl /\ pc = "done"
  /\ call.token.proofs # <<>> /\ proofs # <<>>
  /\ \A i \in DOMAIN call.token.proofs : call.token.proofs[i].keyset_id = "A"

\* the first secret Secret::generate draws in the operation
FirstSecret == MaxStore + MaxToken + 1

\* the proofs of ps the running operation has built
Built(ps) == {ps[i] : i \in {k \in DOMAIN ps : ps[k].secret >= FirstSecret}}

\* C11: a successful answer to a swap request whose signature amounts are not
\* the requested output amounts makes the swap, and with it the operation,
\* fail at once, and no proof built from that answer is in the store.
C11_SwapMismatchFails ==
  \A i \in DOMAIN answers :
    (answers[i].to = "swap" /\ answers[i].ok /\ answers[i].sigs # answers[i].asked)
    => /\ i = Len(answers)
       /\ pc = "done" /\ result.st = "err"
       /\ Built(proofs) = {}

\* C12: when the answer to the mint request holds an amount the active keyset
\* has no key for, or the wallet kept no secret for, mint_tokens fails and the
\* store is the store at the call.
C12_MintBadAmountRollsBack ==
  (call.op = "mint" /\ pc = "done" /\ Len(answers) = 2 /\ answers[2].ok
     /\ \E i \in DOMAIN answers[2].sigs :
          \/ answers[2].sigs[i] \notin loc.req.active_keys
          \/ answers[2].sigs[i] \notin DOMAIN loc.req.secrets)
  => /\ result.st = "err"
     /\ proofs = pre

\* the proofs the wallet holds or has handed out: the store and, after a
\* successful send, the proofs of the token
Held ==
  proofs \o (IF Succeeded("send") THEN result.val.token.proofs ELSE <<>>)

\* C13: no two proofs the wallet has built share a secret, whatever the mint
\* answered.
C13_NoSecretReuse ==
  \A i, j \in DOMAIN Held :
    (i # j /\ Held[i].secret >= FirstSecret /\ Held[j].secret >= FirstSecret)
    => Held[i].secret # Held[j].secret

\* the place of the last event e of the trace, 0 if there is none
LastOf(e) ==
  IF \E i \in DOMAIN trace : trace[i] = e
  THEN CHOOSE i \in DOMAIN trace : trace[i] = e /\ \A k \in (i + 1)..Len(trace) : trace[k] # e
  ELSE 0

\* C14: when melt_tokens or prepare_cashu_token returns an error after it put
\* extracted proofs back into the store, save() was called after the last
\* restore.
C14_SaveAfterRestore ==
  ((Failed("melt") \/ Failed("send")) /\ LastOf("restore") > 0)
  => LastOf("save") > LastOf("restore")

\* C15: when mint_tokens, prepare_cashu_token, receive_via_cashu_token or
\* melt_tokens returns Ok, the wallet file as last saved holds exactly the
\* proofs of the store.
C15_SavedOnSuccess ==
  (pc = "done" /\ result.st = "ok") => saved = proofs

\* a melt that returned Ok after change proofs were appended to the store
C15_Witness ==
  /\ Succeeded("melt") /\ LastAnswer.change # <<>>
  /\ Built(proofs) # {} /\ saved = proofs

\* the quote ids of the mint requests sent
MintedIds == [i \in DOMAIN minted |-> minted[i].quote]

\* C16: over the lifetime of a wallet every quote id is sent in at most one
\* mint request, the id sent is that of a quote the wallet created, and no
\* mint request is sent for a quote whose checked state is ISSUED.
C16_QuoteRedeemedOnce ==
  /\ NoDuplicates(MintedIds)
  /\ \A i \in DOMAIN minted :
       /\ minted[i].quote \in Range(mint_quotes)
       /\ minted[i].state # "ISSUED"

\* two calls of mint_tokens have each sent a mint request, and the second has
\* returned Ok
C16_Witness ==
  /\ Len(minted) = MaxQuotes
  /\ pc = "done"
  /\ result.st = "ok"

\* split_amount(n) has returned
SplitReturned(n) == pc = "done" /\ call.op = "split_amount" /\ call.amount = n

IsPowerOfTwo(x) == \E k \in 0..(2 * NumDenoms) : x = Pow2(k)

StrictlyDecreasing(s) == \A i \in DOMAIN s : i > 1 => s[i - 1] > s[i]

\* C17: for every n > 0 the amounts of split_amount(n) sum to n, are powers
\* of two and are strictly decreasing.
C17_SplitSumsToAmount ==
  \A n \in 1..(Modulus - 1) :
    SplitReturned(n)
    => /\ Sum(result.val.amounts) = n
       /\ \A i \in DOMAIN result.val.amounts : IsPowerOfTwo(result.val.amounts[i])
       /\ StrictlyDecreasing(result.val.amounts)

\* find_subset_sum(S, t) has returned
SubsetSumReturned == pc = "done" /\ call.op = "find_subset_sum"

\* how often v occurs in s
Count(s, v) == Cardinality({i \in DOMAIN s : s[i] = v})

\* R is a sub-multiset of S
SubMultiset(R, S) == \A v \in Range(R) : Count(R, v) <= Count(S, v)

\* C18: if find_subset_sum(S, t) returns Some(R), the elements of R sum to t
\* and R is a sub-multiset of S.
C18_SubsetSumSound ==
  (SubsetSumReturned /\ result.val.found)
  => /\ Sum(result.val.subset) = call.target
     /\ SubMultiset(result.val.subset, call.slice)

\* a subset was returned that takes an amount twice, from a slice that holds
\* it twice and holds other amounts too
C18_Witness ==
  /\ SubsetSumReturned
  /\ result.val.found
  /\ \E v \in Range(call.slice) :
       /\ Count(result.val.subset, v) = 2
       /\ Count(call.slice, v) = 2
  /\ Len(call.slice) > Len(result.val.subset)

\* some sub-multiset of S sums to t: the elements at some set of positions
Reachable(S, t) ==
  \E I \in SUBSET DOMAIN S :
    Sum([k \in 1..Cardinality(I) |->
           S[CHOOSE i \in I : Cardinality({j \in I : j < i}) = k - 1]]) = t

\* C19: for every slice S and target t, t = 0 and the empty slice included,
\* find_subset_sum(S, t) returns None only if no sub-multiset of S sums to t.
C19_SubsetSumComplete ==
  (SubsetSumReturned /\ ~result.val.found) => ~Reachable(call.slice, call.target)

\* calculate_number_of_blank_outputs(f) has returned
BlankReturned(f) ==
  pc = "done" /\ call.op = "calculate_number_of_blank_outputs" /\ call.fee_reserve = f

\* the number of binary digits of f > 0: the d with 2^(d-1) <= f < 2^d
BinaryDigits(f) == CHOOSE d \in 1..f : Pow2(d - 1) <= f /\ f < Pow2(d)

\* C20: calculate_number_of_blank_outputs(f) is 0 for f = 0 and otherwise
\* max(1, floor(log2(f)) + 1), the number of binary digits of f; in particular
\* 0->0, 1->1, 2->2, 3->2, 4->3, 7->3, 8->4, 900->10, 1000->10.
C20_BlankOutputsCount ==
  /\ (pc = "done" /\ call.op = "calculate_number_of_blank_outputs")
     => result.val.count = (IF call.fee_reserve = 0 THEN 0
                            ELSE Max(1, BinaryDigits(call.fee_reserve)))
  /\ (BlankReturned(0) => result.val.count = 0)
  /\ (BlankReturned(1) => result.val.count = 1)
  /\ (BlankReturned(2) => result.val.count = 2)
  /\ (BlankReturned(3) => result.val.count = 2)
  /\ (BlankReturned(4) => result.val.count = 3)
  /\ (BlankReturned(7) => result.val.count = 3)
  /\ (BlankReturned(8) => result.val.count = 4)
  /\ (BlankReturned(900) => result.val.count = 10)
  /\ (BlankReturned(1000) => result.val.count = 10)

\* the count for a fee reserve of 1000 has been returned
C20_Witness == BlankReturned(1000) /\ result.val.count = 10

\* extract_proofs_with_amounts has returned
ExtractReturned == pc = "done" /\ call.op = "extract_proofs_with_amounts"

\* the sequences a and b hold the same elements equally often
SameMultiset(a, b) ==
  /\ Len(a) = Len(b)
  /\ \A v \in Range(a) \cup Range(b) : Count(a, v) = Count(b, v)

\* C21: extract_proofs_with_amounts either succeeds, having removed one proof
\* per entry of amounts, the removed amounts being amounts as a multiset and
\* every other proof left in the store, or fails and leaves the multiset of
\* the store's proofs as it was.
C21_ExtractAllOrNothing ==
  ExtractReturned
  => IF result.val.ok
     THEN /\ SameMultiset(Amounts(result.val.extracted), call.amounts)
          /\ SameMultiset(result.val.proofs \o result.val.extracted, call.store)
     ELSE SameMultiset(result.val.proofs, call.store)

\* a failed extraction that had taken a proof out of the middle of the store
\* before it found an amount missing
C21_Witness ==
  /\ ExtractReturned
  /\ ~result.val.ok
  /\ Len(call.store) = MaxExtract
  /\ result.val.proofs # call.store
  /\ SameMultiset(result.val.proofs, call.store)

\* C22: for get_info, get_keys and get_keysets, a call that finds the value
\* fetched returns it and sends no request; a call that does not find it
\* sends a request; a fetch that fails leaves the field empty and one that
\* succeeds fills it with the value returned.
C22_MemoizedOnce ==
  [][/\ (pc = "idle" /\ pc' # "idle" /\ call'.op \in Memoized)
        => IF cache[Slot(call'.op)] # <<>>
           THEN /\ pc' = "done"
                /\ trace' = <<>>
                /\ result' = Ok(cache[Slot(call'.op)][1])
                /\ cache' = cache
           ELSE /\ pc' = "http"
                /\ trace' = <<call'.op>>
     /\ (pc = "http" /\ pc' = "done" /\ call.op \in Memoized)
        => IF result'.st = "ok"
           THEN cache' = [cache EXCEPT ![Slot(call.op)] = <<result'.val>>]
           ELSE cache' = cache /\ cache[Slot(call.op)] = <<>>]_vars

\* get_keys has returned the value fetched by an earlier call without
\* sending a request, while get_info has nothing fetched
C22_Witness ==
  /\ pc = "done"
  /\ call.op = "get_keys"
  /\ trace = <<>>
  /\ result = Ok("b")
  /\ cache.keys = <<"b">>
  /\ cache.info = <<>>

\* C23: every request of the mint client turns an answer with a status
\* outside 2xx into an error that carries the status and the body; such an
\* answer is never returned as a success.
C23_Non2xxIsError ==
  (pc = "done" /\ call.op \in Rpcs /\ answers # <<>> /\ answers[1].sent
     /\ ~is_success(answers[1].status))
  => result = Err([error |-> "response", status |-> answers[1].status,
                   body |-> answers[1].body])

\* C24: for every mint key k, every point Y = hash_to_curve(secret) and
\* every blinding factor r for which B_ = Y + r*G is a point, the proof
\* constructed from C_ = k*B_ with r and K = k*G has C = k*Y, whatever r is.
C24_UnblindIsKTimesY ==
  (pc = "done" /\ call.op = "construct_proof" /\ result.val.blinded)
  => result.val.C = <<(call.k * call.Y) % CurveOrder>>

\* a proof was constructed with a blinding factor other than 1 from a
\* signature of a key other than 1
C24_Witness ==
  /\ pc = "done"
  /\ call.op = "construct_proof"
  /\ call.k > 1 /\ call.r > 1 /\ call.Y > 1
  /\ result.val.blinded
  /\ result.val.C # <<>>

\* hash_to_curve has returned
HashReturned == pc = "done" /\ call.op = "hash_to_curve"

\* the counters below 2^16 whose candidate is the x-coordinate of a point
ValidCounters == {c \in 0..(HashAttempts - 1) : call.valid[c]}

\* C25: hash_to_curve returns the point, of even parity, of the least
\* counter whose candidate is valid, makes at most 2^16 attempts, and fails
\* with "No valid point" exactly when no counter below 2^16 is valid.
C25_FirstValidCounter ==
  HashReturned
  => /\ result.val.attempts <= HashAttempts
     /\ result.val.ok <=> ValidCounters # {}
     /\ result.val.ok
        => /\ result.val.counter \in ValidCounters
           /\ \A c \in ValidCounters : result.val.counter <= c
           /\ result.val.parity = "even"
     /\ ~result.val.ok => result.val.error = "No valid point"

\* the point of a message whose first candidates are rejected, and a failure
\* for a message whose only valid candidate is that of counter 2^16
C25_Witness ==
  /\ HashReturned
  /\ \/ result.val.ok /\ result.val.counter = HashAttempts - 1
     \/ ~result.val.ok /\ call.valid[HashAttempts]

\* C26: every mint request sent by mint_tokens carries the signature of
\* MintQuote::sign over the quote id and the B_ of the request's outputs in
\* their order, made with the secret key whose public key was sent when the
\* quote was created.
C26_MintRequestSigned ==
  \A i \in DOMAIN minted :
    \E secret_key \in Scalars :
      /\ minted[i].pubkey = <<public_key(secret_key)>>
      /\ minted[i].signature = <<sign(minted[i].quote, minted[i].outputs, secret_key)>>

\* a token was encoded and decoded again
TokenReturned == pc = "done" /\ call.op = "token"

\* the elements of s that satisfy the keyset id, in their order
ProofsOf(ps, id) == SelectSeq(ps, LAMBDA p : p.keyset_id = id)

MeltQuoted == call.op = "melt" /\ answers # <<>> /\ answers[1].to = "melt_quote"

\* the subset find_subset_sum finds in the store at the call for the quote's
\* amount and fee_reserve, and the proofs extracted for it
MeltSubset ==
  find_subset_sum(SortAsc(Amounts(pre)), answers[1].quote.amount + answers[1].quote.fee_reserve)

MeltSubsetProofs == extract_proofs_with_amounts(pre, MeltSubset.subset).extracted

\* C28: when a sub-multiset of the store sums to amount + fee_reserve and the
\* keysets of its proofs have input_fee_ppk 0, and no request to the mint
\* fails, melt sends no swap request, takes no proof out of the store for a
\* swap, and the proofs extract_proofs_for_melting returns are that subset.
C28_ExactSubsetNoSwap ==
  (/\ MeltQuoted
   /\ MeltSubset.found
   /\ AllKnown(MeltSubsetProofs)
   /\ SumFeePpk(MeltSubsetProofs) = 0
   /\ "fail" \notin Range(trace))
  => /\ "swap" \notin Range(trace)
     /\ pc \in {"melting", "done"}
     /\ "extracted" \in DOMAIN loc
     /\ loc.extracted = MeltSubsetProofs

\* melt_tokens returned an error from one of the two balance checks of
\* extract_proofs_for_melting: the wallet was saved right after the staged
\* proofs were handed back, and no swap or melt request had been sent
MeltInsufficient ==
  /\ Failed("melt")
  /\ Len(trace) >= 2
  /\ trace[Len(trace)] = "save"
  /\ trace[Len(trace) - 1] \in {"restore", "replan"}
  /\ "swap" \notin Range(trace)
  /\ "melt" \notin Range(trace)

\* C29: when extract_proofs_for_melting fails at a balance check, the first one
\* or the one after the fee was estimated again, every proof it had staged is
\* back in the store: the store holds the proofs it held before melt_tokens
C29_InsufficientRestoresAll ==
  MeltInsufficient => SameMultiset(proofs, pre)

\* a step in which the melt request of melt_tokens fails
MeltRequestFails ==
  /\ pc = "melting"
  /\ answers' # answers
  /\ answers'[Len(answers')].to = "melt"
  /\ ~answers'[Len(answers')].ok

\* C30: when the melt request fails, melt_tokens appends the proofs it sent as
\* inputs to the store, saves the wallet after that and as the last thing it
\* does, and returns the error; the store gains nothing else, so no change is
\* processed
C30_MeltFailureRestoresInputs ==
  [][MeltRequestFails =>
       /\ proofs' = proofs \o loc.req.inputs
       /\ saved' = proofs'
       /\ trace' = trace \o <<"fail", "restore", "save">>
       /\ pc' = "done"
       /\ result'.st = "err"]_vars

\* melt_tokens has failed at the melt request, which carried inputs and blank
\* outputs and was answered by an error
C30_Witness ==
  /\ Failed("melt")
  /\ answers # <<>>
  /\ LastAnswer.to = "melt"
  /\ ~LastAnswer.ok
  /\ loc.req.inputs # <<>>
  /\ loc.req.blank_outputs > 0

\* prepare_cashu_token(amount) was called on a store of which some
\* sub-multiset of the amounts sums to exactly amount
SendExactSubset ==
  call.op = "send" /\ pc # "idle" /\ Reachable(Amounts(pre), call.amount)

\* C31: when some sub-multiset of the store's amounts sums to exactly amount,
\* prepare_cashu_token(amount) sends no swap request and returns fee 0 with a
\* token whose proofs sum to amount; the token's proofs and the proofs left
\* in the store are together the proofs of the store at the call
C31_SendExactSubsetNoSwap ==
  SendExactSubset
  => /\ "swap" \notin Range(trace)
     /\ Succeeded("send")
     /\ result.val.fee = 0
     /\ token_amount(result.val.token) = call.amount
     /\ SameMultiset(proofs \o result.val.token.proofs, pre)

\* C31 for the amounts above 0
C31_SendExactSubsetNoSwapPositive ==
  (call.op = "send" /\ call.amount > 0) => C31_SendExactSubsetNoSwap

\* a step in which prepare_cashu_token ends because its call of
\* prepare_amounts_for_swap_before_spend returned an Err: the store and the
\* events after the step are those the function left, under the choices o
PrepareFails(o) ==
  /\ pc = "idle"
  /\ call'.op = "send"
  /\ Balance(proofs) >= call'.amount
  /\ LET p == prepare_amounts_for_swap_before_spend(Wallet, o, call'.amount)
     IN /\ p.st = "err"
        /\ proofs' = p.w.proofs
        /\ trace' = p.w.trace
        /\ pc' = "done"
        /\ result'.st = "err"

\* C32: when prepare_amounts_for_swap_before_spend returns an error, the store
\* holds the same multiset of proofs as before the call
C32_PrepareErrorKeepsStore ==
  [][\A o \in Choices : PrepareFails(o) => SameMultiset(proofs', proofs)]_vars

\* a swap request is in flight
SwapRequested == pc = "swap"

\* C33: for every swap request sent, the requested output amounts and the fee
\* ceil(sum of input_fee_ppk of the inputs' keysets / 1000) sum to the amounts
\* of the inputs, and the fee of the request is that fee
C33_SwapRequestBalanced ==
  SwapRequested
  => /\ loc.req.fee = DivCeil(SumFeePpk(loc.req.inputs), 1000)
     /\ Sum(loc.req.outputs) + loc.req.fee = Sum(Amounts(loc.req.inputs))

\* C33 for the swap requests of send and melt, whose outputs are planned by
\* prepare_amounts_for_swap_before_spend
C33_PlannedSwapBalanced ==
  (SwapRequested /\ loc.caller # "receive") => C33_SwapRequestBalanced

\* the swap request of receive_via_cashu_token is in flight
ReceiveSwapRequested == pc = "swap" /\ loc.caller = "receive"

\* the amounts of s never decrease
Ascending(s) == \A i \in 1..(Len(s) - 1) : s[i] <= s[i + 1]

\* C34: the swap request of a receive has the token's proofs as inputs, and its
\* output amounts are the amounts of split_amount(token.amount - fee), the
\* difference taken on u64, in ascending order
C34_ReceiveOutputsSplitAscending ==
  ReceiveSwapRequested
  => /\ loc.req.inputs = call.token.proofs
     /\ loc.req.fee = DivCeil(SumFeePpk(call.token.proofs), 1000)
     /\ SameMultiset(loc.req.outputs,
                     split_amount((token_amount(call.token) - loc.req.fee) % Modulus))
     /\ Ascending(loc.req.outputs)

\* a receive whose swap request pays a fee and asks for two outputs or more of
\* different amounts
C34_Witness ==
  /\ ReceiveSwapRequested
  /\ loc.req.fee > 0
  /\ loc.req.fee <= token_amount(call.token)
  /\ Len(loc.req.outputs) >= 2
  /\ loc.req.outputs[1] < loc.req.outputs[2]

\* melt_tokens has sent its melt request
MeltRequested ==
  /\ call.op = "melt"
  /\ pc \in {"melting", "done"}
  /\ "extracted" \in DOMAIN loc
  /\ "req" \in DOMAIN loc

\* the melt request was answered with a quote
MeltAnswered ==
  /\ MeltRequested
  /\ pc = "done"
  /\ LastAnswer.to = "melt"
  /\ LastAnswer.ok

\* the active keyset of the unit
ActiveKeyset == for_unit(FilterActive(mint.keysets), "sat")[1]

\* the last n elements of s
LastN(s, n) == SubSeq(s, Len(s) - n + 1, Len(s))

\* C35: the melt request carries calculate_number_of_blank_outputs(fee_reserve)
\* blank outputs, each of amount 1 under the active keyset; when melt_tokens
\* succeeds, the i-th change signature has become a proof of the returned
\* amount, an amount the active keyset has a key for, with the secret of the
\* i-th blank output; an answer with more change signatures than blank
\* outputs makes melt_tokens fail
C35_BlankOutputsAndChange ==
  /\ MeltRequested
     => /\ Len(loc.req.outputs) = calculate_number_of_blank_outputs(loc.quote.fee_reserve)
        /\ Len(loc.req.secrets) = Len(loc.req.outputs)
        /\ \A i \in DOMAIN loc.req.outputs :
             loc.req.outputs[i] = [amount |-> 1, id |-> ActiveKeyset.id]
  /\ (MeltAnswered /\ result.st = "ok")
     => LET change == LastAnswer.change
        IN /\ Len(change) <= Len(loc.req.secrets)
           /\ Len(change) <= Len(proofs)
           /\ LastN(proofs, Len(change)) =
                [i \in DOMAIN change |->
                   [secret |-> loc.req.secrets[i], amount |-> change[i],
                    keyset_id |-> ActiveKeyset.id]]
           /\ \A i \in DOMAIN change : change[i] \in by_id(mint.keys, ActiveKeyset.id)[1].keys
  /\ (MeltAnswered /\ Len(LastAnswer.change) > Len(loc.req.outputs))
     => result.st = "err"

\* melt_tokens has succeeded with two change signatures of different amounts
\* unblinded with the secrets of its two blank outputs
C35_Witness ==
  /\ MeltAnswered
  /\ result.st = "ok"
  /\ Len(LastAnswer.change) = 2
  /\ LastAnswer.change[1] # LastAnswer.change[2]

\* melt_tokens has failed on an answer with more change signatures than the
\* request had blank outputs
C35_WitnessSurplus ==
  /\ MeltAnswered
  /\ Len(LastAnswer.change) > Len(loc.req.outputs)
  /\ result.st = "err"

\* the events of the trace that are requests to the mint
RequestEvents == {"melt_quote", "keysets", "keys", "swap", "melt"}

\* no request to the mint follows a failed one
NoRequestAfterFailure ==
  \A i, j \in DOMAIN trace :
    (i < j /\ trace[i] = "fail") => trace[j] \notin RequestEvents

\* C36: a call of melt_tokens calls prepare_amounts_for_swap_before_spend at
\* most twice, sends at most one quote, one swap and one melt request and
\* fetches keysets and keys at most once, so that it ends after five requests
\* at most; once a request to the mint has failed it sends no other
C36_MeltBoundedNoRetry ==
  call.op = "melt"
  => /\ Count(trace, "prep") <= 2
     /\ Count(trace, "swap") <= 1
     /\ Count(trace, "melt") <= 1
     /\ \A e \in RequestEvents : Count(trace, e) <= 1
     /\ NoRequestAfterFailure

\* melt_tokens has ended after two calls of
\* prepare_amounts_for_swap_before_spend, a swap request and a melt request
C36_Witness ==
  /\ call.op = "melt"
  /\ pc = "done"
  /\ Count(trace, "prep") = 2
  /\ Count(trace, "swap") = 1
  /\ Count(trace, "melt") = 1

\* melt_tokens has ended with an error after a request to the mint failed
C36_WitnessFailure ==
  /\ Failed("melt")
  /\ "fail" \in Range(trace)
  /\ "swap" \in Range(trace)

\* the running operation has aborted: a failed assertion, a failed expect or
\* an arithmetic overflow in a build that checks for it
Aborted == pc = "done" /\ result.st = "panic"

\* C37: no wallet operation aborts, whatever the store, the fees of the
\* keysets and the answers of the mint
C37_NoAbort == ~Aborted

\* C37 for the operations other than receive
C37_NoAbortButReceive == call.op # "receive" => ~Aborted

\* every keyset of the mint is free, the mint has an active keyset with its
\* keys, and the proofs of the store at the call are of its keysets
FreeMint ==
  /\ \A i \in DOMAIN mint.keysets : mint.keysets[i].input_fee_ppk = 0
  /\ FilterActive(mint.keysets) # <<>>
  /\ by_id(mint.keys, ActiveKeyset.id) # <<>>
  /\ by_id(mint.keys, ActiveKeyset.id)[1].keys = Denominations
  /\ AllKnown(pre)

\* no request of the call has failed, and every swap was signed as requested
HonestAnswers ==
  /\ "fail" \notin Range(trace)
  /\ \A i \in DOMAIN answers :
       answers[i].to = "swap" => answers[i].ok /\ answers[i].sigs = answers[i].asked

\* melt_tokens was called with a balance that covers the quote, on a free
\* mint that has answered every request so far
MeltCovered ==
  /\ MeltQuoted
  /\ FreeMint
  /\ HonestAnswers
  /\ Balance(pre) >= answers[1].quote.amount + answers[1].quote.fee_reserve

\* C38: with every input_fee_ppk 0 and a mint that answers every request and
\* signs what was requested, melt_tokens called with a balance of at least
\* amount + fee_reserve does not end before the melt request, and the inputs
\* of the melt request sum to amount + fee_reserve
C38_CoveredMeltReachesRequest ==
  MeltCovered
  => /\ pc = "done" => "melt" \in Range(trace)
     /\ MeltRequested
        => Sum(Amounts(loc.req.inputs))
             = answers[1].quote.amount + answers[1].quote.fee_reserve

\* C38 for the quotes that no sub-multiset of the store pays exactly
C38_CoveredMeltNoExactSubset ==
  (MeltCovered /\ ~MeltSubset.found /\ answers[1].quote.amount + answers[1].quote.fee_reserve > 0)
  => C38_CoveredMeltReachesRequest

\* the blank outputs of a fee_reserve were counted and a change was split
ChangeReturned == pc = "done" /\ call.op = "change"

\* C39: for every fee_reserve f > 0 and every change c with 0 <= c <= f,
\* split_amount(c) has at most calculate_number_of_blank_outputs(f) elements
C39_BlankOutputsSuffice ==
  (ChangeReturned /\ call.fee_reserve > 0 /\ call.change <= call.fee_reserve)
  => Len(result.val.amounts) <= result.val.count

\* a change within the fee_reserve whose split takes every blank output,
\* three or more
C39_Witness ==
  /\ ChangeReturned
  /\ call.change <= call.fee_reserve
  /\ result.val.count >= 3
  /\ Len(result.val.amounts) = result.val.count

====
